---- MODULE Spec2Model ----
\* fmn: the copy engine of src/fmn/main.go and src/fmn/helpers.go
\* (run -> copyFile -> copySource -> copyDirectory / copySingleFile ->
\* shouldOverwrite -> copySrcToDest / createDir) over an explicit model of
\* the filesystem the os package calls act on.
EXTENDS Integers, Sequences, FiniteSets, TLC

\* ---------------------------------------------------------------- bounds
\* most source arguments of one invocation
MaxSources == 2
\* most lines waiting on the input stream
MaxInput == 2
\* longest path, in components, the operating system accepts (PATH_MAX)
PathMax == 3

\* ------------------------------------------------------- program constants
\* os.Create opens with 0666 before umask 022
CreateMode == 420
\* the permission bits createDir passes to os.MkdirAll
DirMode == 493
\* owner read and owner write permission bits
OwnerRead == 256
OwnerWrite == 128

\* ------------------------------------------------------------------ paths
\* A path string is a sequence of components; "." is the current-directory
\* component, and the cleaned form of the working directory is <<>>.
Dot == "."

\* byte order of the file names in use, for the sorted result of os.ReadDir
NameRank == [n \in {"A", "B", "f", "g", "p.gz", "q.gz", "s", "z"} |->
               CASE n = "A" -> 1 [] n = "B" -> 2 [] n = "f" -> 3
                 [] n = "g" -> 4 [] n = "p.gz" -> 5 [] n = "q.gz" -> 6
                 [] n = "s" -> 7 [] n = "z" -> 8]

\* filepath.Clean: drop the "." components
Clean(p) == SelectSeq(p, LAMBDA c : c # Dot)

\* filepath.Join: concatenate, then Clean
Join(a, b) == Clean(a \o b)

\* filepath.Base: the last component, "." for the empty path
Base(p) == IF Clean(p) = <<>> THEN <<Dot>> ELSE <<Clean(p)[Len(Clean(p))]>>

\* filepath.Rel(src, path) for a path below src
Rel(src, path) == SubSeq(Clean(path), Len(Clean(src)) + 1, Len(Clean(path)))

Parent(c) == SubSeq(c, 1, Len(c) - 1)

\* ------------------------------------------------------------- filesystem
\* fs maps every existing clean path to its node; <<>> is the working
\* directory.  The process is unprivileged: permission bits are enforced.
DirNode == [kind |-> "dir", content |-> "", mode |-> DirMode, mtime |-> 0]
FileNode(c, m, t) == [kind |-> "file", content |-> c, mode |-> m, mtime |-> t]

Readable(node) == (node.mode \div OwnerRead) % 2 = 1
Writable(node) == (node.mode \div OwnerWrite) % 2 = 1

Exists(f, c) == c \in DOMAIN f
IsDirAt(f, c) == Exists(f, c) /\ f[c].kind = "dir"
IsFileAt(f, c) == Exists(f, c) /\ f[c].kind = "file"

\* some proper prefix of c is a regular file (ENOTDIR)
FileOnTheWay(f, c) == \E k \in 0..(Len(c) - 1) : IsFileAt(f, SubSeq(c, 1, k))

Put(f, c, node) == [q \in (DOMAIN f) \cup {c} |-> IF q = c THEN node ELSE f[q]]

\* os.Stat: errno "" with the node, or ENAMETOOLONG / ENOTDIR / ENOENT
Stat(f, p) ==
  LET c == Clean(p) IN
  IF Len(c) > PathMax THEN [errno |-> "ENAMETOOLONG", info |-> DirNode]
  ELSE IF Exists(f, c) THEN [errno |-> "", info |-> f[c]]
  ELSE IF FileOnTheWay(f, c) THEN [errno |-> "ENOTDIR", info |-> DirNode]
  ELSE [errno |-> "ENOENT", info |-> DirNode]

\* os.IsNotExist
IsNotExist(st) == st.errno = "ENOENT"

\* os.ReadDir: the entries of directory c, sorted by name, each with the
\* type it has when the directory is read
RECURSIVE SortNames(_)
SortNames(S) ==
  IF S = {} THEN <<>>
  ELSE LET m == CHOOSE n \in S : \A o \in S : NameRank[n] <= NameRank[o]
       IN <<m>> \o SortNames(S \ {m})

ReadDir(f, c) ==
  LET kids == {q[Len(q)] : q \in {r \in DOMAIN f : Len(r) = Len(c) + 1 /\ Parent(r) = c}}
      names == SortNames(kids)
  IN [k \in 1..Len(names) |->
        [name |-> names[k], isDir |-> f[c \o <<names[k]>>].kind = "dir"]]

\* os.ReadDir fails on a path that is missing or no directory, and on a
\* directory the process may not read
ReadDirErrno(f, c) ==
  IF ~Exists(f, c) THEN (IF FileOnTheWay(f, c) THEN "ENOTDIR" ELSE "ENOENT")
  ELSE IF f[c].kind # "dir" THEN "ENOTDIR"
  ELSE IF Readable(f[c]) THEN "" ELSE "EACCES"

\* the time the clock shows during the invocation (later than every
\* timestamp of the initial filesystem)
Now == 9

\* ----------------------------------------------------------------- errors
NoErr == [kind |-> "nil", path |-> <<>>, cause |-> ""]
Err(k, p, c) == [kind |-> k, path |-> p, cause |-> c]
\* filepath.SkipDir, the sentinel the walk callback returns to prune
SkipDir == [kind |-> "SkipDir", path |-> <<>>, cause |-> ""]

\* ------------------------------------------------------------------ world
\* what the os and fmt calls act on: the filesystem, the lines waiting on
\* console.In, the lines written to console.Out, the os calls made so far
World(f, i, o, s) == [fs |-> f, in |-> i, out |-> o, sys |-> s]
Sys(w, op, p) == [w EXCEPT !.sys = Append(@, <<op, p>>)]
Say(w, line) == [w EXCEPT !.out = Append(@, line)]

\* os.Stat as a call of the program: recorded, then answered
StatCall(w, p) == [w |-> Sys(w, "stat", p), st |-> Stat(w.fs, p)]

\* os.Open(src): errno of opening src for reading
OpenErrno(f, p) ==
  LET st == Stat(f, p) IN
  IF st.errno # "" THEN st.errno
  ELSE IF ~Readable(st.info) THEN "EACCES"
  ELSE ""

\* os.Create(dst): errno of creating or truncating dst
CreateErrno(f, p) ==
  LET c == Clean(p) IN
  IF Len(c) > PathMax THEN "ENAMETOOLONG"
  ELSE IF c = <<>> \/ IsDirAt(f, c) THEN "EISDIR"
  ELSE IF IsFileAt(f, c) THEN (IF Writable(f[c]) THEN "" ELSE "EACCES")
  ELSE IF FileOnTheWay(f, c) THEN "ENOTDIR"
  ELSE IF ~IsDirAt(f, Parent(c)) THEN "ENOENT"
  ELSE ""

\* os.Create(dst) when it succeeds: an existing file is truncated and keeps
\* its mode, a new file gets CreateMode
CreateFile(f, p) ==
  LET c == Clean(p) IN
  IF IsFileAt(f, c) THEN Put(f, c, FileNode("", f[c].mode, Now))
  ELSE Put(f, c, FileNode("", CreateMode, Now))

\* faulty variant: no byte is streamed
CopyBytes_Nothing(f, src, dst) == f

\* io.Copy(destFile, srcFile): the bytes src holds when they are read
CopyBytes(f, src, dst) ==
  Put(f, Clean(dst), FileNode(f[Clean(src)].content, f[Clean(dst)].mode, Now))

\* os.Chmod(dst, mode)
Chmod(f, p, m) == Put(f, Clean(p), [f[Clean(p)] EXCEPT !.mode = m])

\* os.Chtimes(dst, t, t)
Chtimes(f, p, t) == Put(f, Clean(p), [f[Clean(p)] EXCEPT !.mtime = t])

\* os.MkdirAll(path, 0755): errno
MkdirAllErrno(f, p) ==
  LET c == Clean(p) IN
  IF Len(c) > PathMax THEN "ENAMETOOLONG"
  ELSE IF IsDirAt(f, c) THEN ""
  ELSE IF IsFileAt(f, c) \/ FileOnTheWay(f, c) THEN "ENOTDIR"
  ELSE ""

\* os.MkdirAll(path, 0755) when it succeeds: every missing directory on the
\* way to path, and path, are created
MkdirAll(f, p) ==
  LET c == Clean(p)
      new == {SubSeq(c, 1, k) : k \in 0..Len(c)} \ DOMAIN f
  IN [q \in (DOMAIN f) \cup new |-> IF q \in new THEN DirNode ELSE f[q]]

\* ------------------------------------------------------------ helpers.go
\* copySrcToDest
\* faulty variant: the timestamps are not reapplied
ChtimesStep_Skip(f, dst, srcInfo) == f

ChtimesStep(f, dst, srcInfo) == Chtimes(f, dst, srcInfo.mtime)

\* faulty variant: the permission bits are not reapplied
ChmodStep_Skip(f, dst, srcInfo) == f

ChmodStep(f, dst, srcInfo) == Chmod(f, dst, srcInfo.mode)

CreateStep(f, dst) == CreateFile(f, dst)

\* faulty variant: the destination is created before the source is opened
copySrcToDest_CreateFirst(w, src, dst, srcInfo, cmd) ==
  IF cmd.dryRun
  THEN [w |-> Say(w, [kind |-> "would copy", src |-> src, dst |-> dst]), err |-> NoErr]
  ELSE
    LET w1 == Sys(w, "create", dst)
        ce == CreateErrno(w.fs, dst)
    IN IF ce # "" THEN [w |-> w1, err |-> Err("create", dst, ce)]
       ELSE
         LET f1 == CreateStep(w.fs, dst)
             w2 == Sys([w1 EXCEPT !.fs = f1], "open", src)
             oe == OpenErrno(f1, src)
         IN IF oe # "" THEN [w |-> w2, err |-> Err("open", src, oe)]
            ELSE
              LET f2 == CopyBytes(f1, src, dst)
                  f4 == ChtimesStep(ChmodStep(f2, dst, srcInfo), dst, srcInfo)
                  w4 == Sys(Sys(Sys([w2 EXCEPT !.fs = f4], "copy", dst), "chmod", dst),
                            "chtimes", dst)
              IN [w |-> IF cmd.verbose
                        THEN Say(w4, [kind |-> "copied", src |-> src, dst |-> dst])
                        ELSE w4,
                  err |-> NoErr]

copySrcToDest(w, src, dst, srcInfo, cmd) ==
  IF cmd.dryRun
  THEN [w |-> Say(w, [kind |-> "would copy", src |-> src, dst |-> dst]), err |-> NoErr]
  ELSE
    LET w1 == Sys(w, "open", src)
        oe == OpenErrno(w.fs, src)
    IN IF oe # "" THEN [w |-> w1, err |-> Err("open", src, oe)]
       ELSE
         LET w2 == Sys(w1, "create", dst)
             ce == CreateErrno(w.fs, dst)
         IN IF ce # "" THEN [w |-> w2, err |-> Err("create", dst, ce)]
            ELSE
              LET f1 == CreateStep(w.fs, dst)
                  w3 == Sys([w2 EXCEPT !.fs = f1], "copy", dst)
              IN IF IsDirAt(f1, Clean(src))
                 THEN [w |-> w3, err |-> Err("read", src, "EISDIR")]
                 ELSE
                   LET f2 == CopyBytes(f1, src, dst)
                       f3 == ChmodStep(f2, dst, srcInfo)
                       f4 == ChtimesStep(f3, dst, srcInfo)
                       w4 == Sys(Sys([w3 EXCEPT !.fs = f4], "chmod", dst), "chtimes", dst)
                   IN [w |-> IF cmd.verbose
                             THEN Say(w4, [kind |-> "copied", src |-> src, dst |-> dst])
                             ELSE w4,
                       err |-> NoErr]

\* faulty variant: no directory is made
createDir_Never(w, path, cmd) == [w |-> w, err |-> NoErr]

\* faulty variant: createDir does not look at the dry-run flag
createDir_Always(w, path, cmd) ==
  LET w1 == Sys(w, "mkdir", path)
      me == MkdirAllErrno(w.fs, path)
  IN IF me # "" THEN [w |-> w1, err |-> Err("mkdir", path, me)]
     ELSE [w |-> [w1 EXCEPT !.fs = MkdirAll(w.fs, path)], err |-> NoErr]

\* faulty variant: a file in the way is replaced by the directory
createDir_Replaces(w, path, cmd) ==
  IF cmd.dryRun
  THEN [w |-> Say(w, [kind |-> "would create directory", src |-> path, dst |-> path]),
        err |-> NoErr]
  ELSE IF IsFileAt(w.fs, Clean(path))
  THEN [w |-> [Sys(w, "mkdir", path) EXCEPT !.fs = Put(w.fs, Clean(path), DirNode)],
        err |-> NoErr]
  ELSE createDir_Always(w, path, cmd)

\* createDir
createDir(w, path, cmd) ==
  IF cmd.dryRun
  THEN [w |-> Say(w, [kind |-> "would create directory", src |-> path, dst |-> path]),
        err |-> NoErr]
  ELSE
    LET w1 == Sys(w, "mkdir", path)
        me == MkdirAllErrno(w.fs, path)
    IN IF me # "" THEN [w |-> w1, err |-> Err("mkdir", path, me)]
       ELSE [w |-> [w1 EXCEPT !.fs = MkdirAll(w.fs, path)], err |-> NoErr]

\* faulty variant: the case of the answer is kept
ToLower_Identity(line) == line

\* strings.ToLower on the characters in use
ToLower(line) ==
  [k \in 1..Len(line) |->
     CASE line[k] = "Y" -> "y" [] line[k] = "E" -> "e" [] line[k] = "S" -> "s"
       [] line[k] = "N" -> "n" [] OTHER -> line[k]]

\* strings.TrimSpace: drop leading and trailing white space
IsSpace(ch) == ch \in {" ", "\t", "\r"}

RECURSIVE TrimLeft(_)
TrimLeft(line) ==
  IF line # <<>> /\ IsSpace(Head(line)) THEN TrimLeft(Tail(line)) ELSE line

RECURSIVE TrimRight(_)
TrimRight(line) ==
  IF line # <<>> /\ IsSpace(line[Len(line)])
  THEN TrimRight(SubSeq(line, 1, Len(line) - 1)) ELSE line

TrimSpace(line) == TrimRight(TrimLeft(line))

\* bufio.ScanLines on a stream of characters: the lines end at "\n", one
\* "\r" before it is dropped, and what follows the last "\n" is a line when
\* it is not empty
DropCR(data) ==
  IF data # <<>> /\ data[Len(data)] = "\r" THEN SubSeq(data, 1, Len(data) - 1)
  ELSE data

RECURSIVE Lines(_)
Lines(raw) ==
  IF raw = <<>> THEN <<>>
  ELSE IF \E i \in 1..Len(raw) : raw[i] = "\n"
  THEN LET i == CHOOSE n \in 1..Len(raw) :
                  raw[n] = "\n" /\ \A m \in 1..(n - 1) : raw[m] # "\n"
       IN <<DropCR(SubSeq(raw, 1, i - 1))>> \o Lines(SubSeq(raw, i + 1, Len(raw)))
  ELSE <<DropCR(raw)>>

\* scanner.Scan() then scanner.Text(): the first line waiting, "" at end of
\* input
ScanText(in) == IF in = <<>> THEN <<>> ELSE Head(in)

\* the numbers of lines the first read of a fresh bufio.Scanner can take
\* from console.In: at least the line it returns, at most all that wait
Reads(in) == 1..(IF Len(in) > 1 THEN Len(in) ELSE 1)

\* what the scanner leaves on console.In when its read took k lines
Consume(in, k) ==
  IF in = <<>> THEN <<>>
  ELSE SubSeq(in, (IF k < Len(in) THEN k ELSE Len(in)) + 1, Len(in))

IsYes(response) == response = <<"y">> \/ response = <<"y", "e", "s">>

\* prompt
prompt(w, dst, k) ==
  LET w1 == Say(w, [kind |-> "prompt", src |-> dst, dst |-> dst])
      response == ToLower(TrimSpace(ScanText(w.in)))
  IN [w |-> [w1 EXCEPT !.in = Consume(w.in, k)], yes |-> IsYes(response)]

\* copy.go, askConfirmationFromReader: the answer read from reader (its
\* prompt goes to the standard output, which no other operation reads)
askConfirmationFromReader(reader) ==
  LET response == ToLower(TrimSpace(ScanText(reader)))
  IN response = <<"y">> \/ response = <<"y", "e", "s">>

\* shouldOverwrite; target is the os.Stat result of targetPath, and
\* targetInfo is nil exactly when that Stat failed
ConflictErr(targetPath) == Err("Conflict", targetPath, "")

\* faulty variant: an existing file is overwritten when neither flag is set
shouldOverwrite_NoConflict(w, targetPath, target, cmd, k) ==
  IF target.errno # "" THEN [w |-> w, should |-> TRUE, err |-> NoErr]
  ELSE IF target.info.kind = "dir" THEN [w |-> w, should |-> TRUE, err |-> NoErr]
  ELSE IF cmd.force THEN [w |-> w, should |-> TRUE, err |-> NoErr]
  ELSE IF cmd.interactive
       THEN LET pr == prompt(w, targetPath, k)
            IN [w |-> pr.w, should |-> pr.yes, err |-> NoErr]
  ELSE [w |-> w, should |-> TRUE, err |-> NoErr]

\* faulty variant: the force flag is not looked at
shouldOverwrite_NoForce(w, targetPath, target, cmd, k) ==
  IF target.errno # "" THEN [w |-> w, should |-> TRUE, err |-> NoErr]
  ELSE IF target.info.kind = "dir" THEN [w |-> w, should |-> TRUE, err |-> NoErr]
  ELSE IF cmd.interactive
       THEN LET pr == prompt(w, targetPath, k)
            IN [w |-> pr.w, should |-> pr.yes, err |-> NoErr]
  ELSE [w |-> w, should |-> FALSE, err |-> ConflictErr(targetPath)]

\* faulty variant: a declined prompt is reported as a conflict
shouldOverwrite_DeclineFails(w, targetPath, target, cmd, k) ==
  IF target.errno # "" THEN [w |-> w, should |-> TRUE, err |-> NoErr]
  ELSE IF target.info.kind = "dir" THEN [w |-> w, should |-> TRUE, err |-> NoErr]
  ELSE IF cmd.force THEN [w |-> w, should |-> TRUE, err |-> NoErr]
  ELSE IF cmd.interactive
       THEN LET pr == prompt(w, targetPath, k)
            IN [w |-> pr.w, should |-> pr.yes,
                err |-> IF pr.yes THEN NoErr ELSE ConflictErr(targetPath)]
  ELSE [w |-> w, should |-> FALSE, err |-> ConflictErr(targetPath)]

\* faulty variant: the directory case is missing, so a directory target is
\* treated like an existing file
shouldOverwrite_DirIsConflict(w, targetPath, target, cmd, k) ==
  IF target.errno # "" THEN [w |-> w, should |-> TRUE, err |-> NoErr]
  ELSE IF cmd.force THEN [w |-> w, should |-> TRUE, err |-> NoErr]
  ELSE IF cmd.interactive
       THEN LET pr == prompt(w, targetPath, k)
            IN [w |-> pr.w, should |-> pr.yes, err |-> NoErr]
  ELSE [w |-> w, should |-> FALSE, err |-> ConflictErr(targetPath)]

\* faulty variant: the interactive flag is looked at before the force flag
shouldOverwrite_AskFirst(w, targetPath, target, cmd, k) ==
  IF target.errno # "" THEN [w |-> w, should |-> TRUE, err |-> NoErr]
  ELSE IF target.info.kind = "dir" THEN [w |-> w, should |-> TRUE, err |-> NoErr]
  ELSE IF cmd.interactive
       THEN LET pr == prompt(w, targetPath, k)
            IN [w |-> pr.w, should |-> pr.yes, err |-> NoErr]
  ELSE IF cmd.force THEN [w |-> w, should |-> TRUE, err |-> NoErr]
  ELSE [w |-> w, should |-> FALSE, err |-> ConflictErr(targetPath)]

shouldOverwrite(w, targetPath, target, cmd, k) ==
  IF target.errno # "" THEN [w |-> w, should |-> TRUE, err |-> NoErr]
  ELSE IF target.info.kind = "dir" THEN [w |-> w, should |-> TRUE, err |-> NoErr]
  ELSE IF cmd.force THEN [w |-> w, should |-> TRUE, err |-> NoErr]
  ELSE IF cmd.interactive
       THEN LET pr == prompt(w, targetPath, k)
            IN [w |-> pr.w, should |-> pr.yes, err |-> NoErr]
  ELSE [w |-> w, should |-> FALSE, err |-> ConflictErr(targetPath)]

\* --------------------------------------------------------------- main.go
\* os.SameFile on a filesystem without hard or symbolic links: the two
\* names resolve to the same node
SameFile(a, b) == Clean(a) = Clean(b)

\* isSameFile: [same, err]
isSameFile(w, a, b) ==
  LET sa == StatCall(w, a)
      sb == StatCall(sa.w, b)
  IN IF sa.st.errno # "" THEN [w |-> sa.w, same |-> FALSE, failed |-> TRUE]
     ELSE IF sb.st.errno # ""
          THEN [w |-> sb.w, same |-> FALSE, failed |-> ~IsNotExist(sb.st)]
     ELSE [w |-> sb.w, same |-> SameFile(a, b), failed |-> FALSE]

\* the final destination path of copySingleFile
FinalDest(src, dest, destInfo) ==
  IF destInfo.kind = "dir" THEN Join(dest, Base(src)) ELSE dest

\* faulty variant: no self-copy check
SelfCopyCheck_Never(sf) == FALSE

\* the self-copy check of copySingleFile
SelfCopyCheck(sf) == ~sf.failed /\ sf.same

\* copySingleFile
copySingleFile(w, cmd, src, dest, srcInfo, destInfo, k) ==
  LET finalDest == FinalDest(src, dest, destInfo)
      sf == isSameFile(w, src, finalDest)
  IN IF SelfCopyCheck(sf) THEN [w |-> sf.w, err |-> Err("SelfCopy", src, "")]
     ELSE
       LET fd == StatCall(sf.w, finalDest)
       IN IF fd.st.errno # "" /\ ~IsNotExist(fd.st)
          THEN [w |-> fd.w, err |-> Err("CheckDest", finalDest, fd.st.errno)]
          ELSE
            LET so == shouldOverwrite(fd.w, finalDest, fd.st, cmd, k)
            IN IF so.err # NoErr THEN [w |-> so.w, err |-> so.err]
               ELSE IF ~so.should THEN [w |-> so.w, err |-> NoErr]
               ELSE copySrcToDest(so.w, src, finalDest, srcInfo, cmd)

\* faulty variant: directories are walked without the recursive flag
OmitsDirectory_Never(c) == FALSE

\* copyDirectory's check of the recursive flag
OmitsDirectory(c) == ~c.recursive

\* faulty variant: a directory is walked onto a destination that is a file
DestNotDirectory_Never(destInfo) == FALSE

\* copyDirectory's check of the destination
DestNotDirectory(destInfo) == destInfo.kind # "dir"

\* the callback copyDirectory hands to filepath.WalkDir, for the entry d
\* found at path
WalkFn(w, cmd, src, dest, path, d, k) ==
  LET relPath == Rel(src, path)
      targetPath == Join(dest, relPath)
  IN IF path = src THEN [w |-> w, err |-> NoErr]
     ELSE
       LET tg == StatCall(w, targetPath)
       IN IF tg.st.errno # "" /\ ~IsNotExist(tg.st)
          THEN [w |-> tg.w, err |-> Err("StatTarget", targetPath, tg.st.errno)]
          ELSE
            LET so == shouldOverwrite(tg.w, targetPath, tg.st, cmd, k)
            IN IF so.err # NoErr THEN [w |-> so.w, err |-> so.err]
               ELSE IF ~so.should
                    THEN [w |-> so.w, err |-> IF d.isDir THEN SkipDir ELSE NoErr]
               ELSE IF d.isDir THEN createDir(so.w, targetPath, cmd)
               ELSE copySrcToDest(so.w, path, targetPath, Stat(so.w.fs, path).info, cmd)

\* filepath.WalkDir keeps, for every directory it is inside, the entries
\* os.ReadDir returned that are still to visit; frames whose entries are
\* used up are left
RECURSIVE PopDone(_)
PopDone(st) ==
  IF st # <<>> /\ st[Len(st)].ents = <<>>
  THEN PopDone(SubSeq(st, 1, Len(st) - 1)) ELSE st

Frame(f, dir) == [dir |-> dir, ents |-> ReadDir(f, Clean(dir))]

\* ------------------------------------------------------------------ state
VARIABLES
  pc,        \* "run", "copyFile", "sources", "walk", "done"
  cmd,       \* the command flags
  args,      \* directories, as run and copyFile hold them
  fs,        \* the filesystem
  stdin,     \* lines waiting on console.In
  out,       \* lines written to console.Out
  sys,       \* the os calls made so far, in order
  destInfo,  \* copyFile's destInfo
  idx,       \* position of copyFile's loop in sources
  errs,      \* copyFile's errs
  stack,     \* the frames of the running filepath.WalkDir
  result,    \* the errors run returns (<<>> is nil), once pc = "done"
  fs0,       \* history: the filesystem when run was called
  srcLog,    \* history: what copySource returned, per call
  last,      \* history: the entry handled by the latest step
  declined,  \* history: the sources in whose copy a prompt was answered no
  srcInfos,  \* listFiles's srcInfos
  hasErrors, \* listFiles's hasErrors
  needsBlankLine, \* listFiles's needsBlankLine
  errlog     \* lines written by errorLogger

listVars == <<srcInfos, hasErrors, needsBlankLine, errlog>>

vars == <<pc, cmd, args, fs, stdin, out, sys, destInfo, idx, errs, stack,
          result, fs0, srcLog, last, declined, listVars>>

\* listFiles has not been called
ListIdle ==
  /\ srcInfos = <<>>
  /\ hasErrors = FALSE
  /\ needsBlankLine = TRUE
  /\ errlog = <<>>

Sources == SubSeq(args, 1, Len(args) - 1)
Dest == args[Len(args)]
TheWorld == World(fs, stdin, out, sys)

NoEntry == [op |-> "none"]

\* the record of one handled entry: what was there before, what the
\* callback or copySingleFile returned, and whether the user was asked
Entry(op, src, target, isDir, w, r) ==
  [op |-> op, src |-> src, target |-> target, isDir |-> isDir,
   before |-> w.fs, err |-> r.err, nerrs |-> Len(errs), nout |-> Len(w.out),
   nsys |-> Len(w.sys), nin |-> Len(w.in),
   asked |-> \E j \in (Len(w.out) + 1)..Len(r.w.out) : r.w.out[j].kind = "prompt",
   line |-> ScanText(w.in),
   wrote |-> \E j \in (Len(w.sys) + 1)..Len(r.w.sys) : r.w.sys[j][1] = "create"]

\* the entry's prompt was answered no
Declined(e) == e.asked /\ ~IsYes(ToLower(TrimSpace(e.line)))

\* ------------------------------------------------------------------- Init
SrcArgs == {<<"f">>, <<"A">>, <<"A", "f">>, <<"z">>}
DestArgs == {<<"B">>, <<"g">>, <<Dot, "f">>, <<"z">>, <<Dot, "A">>, <<"A", "s">>}

RECURSIVE SeqsUpTo(_, _)
SeqsUpTo(S, n) ==
  IF n = 0 THEN {<<>>}
  ELSE LET shorter == SeqsUpTo(S, n - 1)
       IN shorter \cup {Append(q, x) : q \in {r \in shorter : Len(r) = n - 1}, x \in S}

\* the argument lists: none, one path, or up to MaxSources different sources
\* and a destination
Distinct(q) == \A a, b \in 1..Len(q) : q[a] = q[b] => a = b

ArgLists ==
  SeqsUpTo(SrcArgs, 1)
    \cup {Append(q, d) : q \in {r \in SeqsUpTo(SrcArgs, MaxSources) : r # <<>> /\ Distinct(r)},
                         d \in DestArgs}

InputLines == {<<"n">>, <<" ", "Y", "E", "S">>}

SrcModes == {420, 128}

\* the initial tree: files f and g and the directories A (with f, s/f and
\* z) and B in the working directory; sm is the mode of the source files f and
\* A/f, bf and bs say what B/f and B/s are
InitFS(sm, bf, bs) ==
  LET base == {<<>>, <<"f">>, <<"g">>, <<"A">>, <<"A", "f">>, <<"A", "s">>,
               <<"A", "s", "f">>, <<"A", "z">>, <<"B">>}
      dom == base \cup (IF bf = "absent" THEN {} ELSE {<<"B", "f">>})
                  \cup (IF bs = "absent" THEN {} ELSE {<<"B", "s">>})
  IN [q \in dom |->
        CASE q = <<"f">> -> FileNode("x", sm, 2)
          [] q = <<"g">> -> FileNode("y", 420, 1)
          [] q = <<"A", "f">> -> FileNode("a", sm, 2)
          [] q = <<"A", "s", "f">> -> FileNode("b", 420, 2)
          [] q = <<"A", "z">> -> FileNode("c", 420, 2)
          [] q = <<"B", "f">> ->
               (CASE bf = "file" -> FileNode("old", 384, 1)
                  [] bf = "ro" -> FileNode("old", 292, 1)
                  [] OTHER -> DirNode)
          [] q = <<"B", "s">> ->
               (IF bs = "file" THEN FileNode("olds", 384, 1) ELSE DirNode)
          [] OTHER -> DirNode]

Init ==
  /\ pc = "run"
  /\ cmd \in [copy : {TRUE}, recursive : BOOLEAN, force : BOOLEAN,
              interactive : BOOLEAN, verbose : {FALSE}, dryRun : BOOLEAN]
  /\ args \in ArgLists
  /\ \E sm \in SrcModes, bf \in {"absent", "file", "ro", "dir"},
        bs \in {"absent", "file", "dir"} :
       /\ (args = <<>> \/ args[Len(args)] # <<"B">>) => (bf = "absent" /\ bs = "absent")
       /\ fs = InitFS(sm, bf, bs)
  /\ stdin \in SeqsUpTo(InputLines, MaxInput)
  /\ ~cmd.interactive => stdin = <<>>
  \* with force set no line is read: one waiting line is enough to show it
  /\ cmd.force => Len(stdin) <= 1
  /\ out = <<>>
  /\ sys = <<>>
  /\ destInfo = DirNode
  /\ idx = 1
  /\ errs = <<>>
  /\ stack = <<>>
  /\ result = <<>>
  /\ fs0 = fs
  /\ srcLog = <<>>
  /\ last = NoEntry
  /\ declined = {}
  /\ ListIdle

\* ---------------------------------------------------------------- actions
\* faulty variant: identical first and last arguments are let through
SameArgs_Never(dirs) == FALSE

\* run's comparison of the first and the last argument, as strings
SameArgs(dirs) == dirs[1] = dirs[Len(dirs)]

\* run, copy mode: the checks on the shape of the arguments
Run ==
  /\ pc = "run"
  /\ cmd.copy
  /\ LET dirs == IF Len(args) = 1 THEN Append(args, <<Dot>>) ELSE args
     IN IF Len(args) = 0
        THEN /\ result' = <<Err("NoSource", <<>>, "")>>
             /\ pc' = "done"
             /\ args' = args
        ELSE IF SameArgs(dirs)
        THEN /\ result' = <<Err("SelfArg", dirs[1], "")>>
             /\ pc' = "done"
             /\ args' = dirs
        ELSE /\ result' = result
             /\ pc' = "copyFile"
             /\ args' = dirs
  /\ UNCHANGED <<cmd, listVars, fs, stdin, out, sys, destInfo, idx, errs, stack, fs0, srcLog,
                 last, declined>>

\* faulty variant: several sources are accepted for a destination that is a file
TargetNotDirectory_Never(sources, info) == FALSE

\* copyFile's check of the destination against the number of sources
TargetNotDirectory(sources, info) == Len(sources) > 1 /\ info.kind # "dir"

\* faulty variant: a destination that does not exist yet is accepted
DestStatFails_MissingAllowed(st) == st.errno # "" /\ ~IsNotExist(st)

\* copyFile's check of os.Stat(dest)
DestStatFails(st) == st.errno # ""

\* copyFile up to its loop: the destination is inspected once
CopyFile ==
  /\ pc = "copyFile"
  /\ LET sd == StatCall(TheWorld, Dest)
     IN /\ sys' = sd.w.sys
        /\ IF DestStatFails(sd.st)
           THEN /\ result' = <<Err("StatDest", Dest, sd.st.errno)>>
                /\ pc' = "done"
                /\ destInfo' = destInfo
           ELSE IF TargetNotDirectory(Sources, sd.st.info)
           THEN /\ result' = <<Err("NotADirectory", Dest, "")>>
                /\ pc' = "done"
                /\ destInfo' = destInfo
           ELSE /\ result' = result
                /\ pc' = "sources"
                /\ destInfo' = sd.st.info
  /\ UNCHANGED <<cmd, listVars, args, fs, stdin, out, idx, errs, stack, fs0, srcLog, last, declined>>

\* faulty variant: the loop stops at the first source that fails
EndSource_StopAtFirstError(err) ==
  /\ errs' = IF err # NoErr THEN Append(errs, err) ELSE errs
  /\ srcLog' = Append(srcLog, [src |-> idx, err |-> err])
  /\ idx' = IF err # NoErr THEN Len(Sources) + 1 ELSE idx + 1
  /\ pc' = "sources"
  /\ stack' = <<>>

\* faulty variant: the error of a source is not kept
EndSource_DropsError(err) ==
  /\ errs' = errs
  /\ srcLog' = Append(srcLog, [src |-> idx, err |-> err])
  /\ idx' = idx + 1
  /\ pc' = "sources"
  /\ stack' = <<>>

\* one pass of copyFile's loop has its error: errs grows when it is not nil
EndSource(err) ==
  /\ errs' = IF err # NoErr THEN Append(errs, err) ELSE errs
  /\ srcLog' = Append(srcLog, [src |-> idx, err |-> err])
  /\ idx' = idx + 1
  /\ pc' = "sources"
  /\ stack' = <<>>

SetWorld(w) ==
  /\ fs' = w.fs
  /\ stdin' = w.in
  /\ out' = w.out
  /\ sys' = w.sys

\* copySource for sources[idx]: a missing source, a file (copySingleFile to
\* its end), or a directory (copyDirectory up to the first entry of the walk)
CopySource ==
  /\ pc = "sources"
  /\ idx <= Len(Sources)
  /\ \E k \in Reads(stdin) :
       LET src == Sources[idx]
           ss == StatCall(TheWorld, src)
       IN IF ss.st.errno # ""
          THEN /\ SetWorld(ss.w)
               /\ EndSource(Err("StatSource", src, ss.st.errno))
               /\ last' = NoEntry
               /\ declined' = declined
          ELSE IF ss.st.info.kind # "dir"
          THEN LET r == copySingleFile(ss.w, cmd, src, Dest, ss.st.info, destInfo, k)
               IN /\ SetWorld(r.w)
                  /\ EndSource(r.err)
                  /\ last' = Entry("file", src, FinalDest(src, Dest, destInfo), FALSE, ss.w, r)
                  /\ declined' = (IF Declined(last') THEN declined \cup {idx} ELSE declined)
          ELSE IF OmitsDirectory(cmd)
          THEN /\ SetWorld(ss.w)
               /\ EndSource(Err("OmitDir", src, ""))
               /\ last' = NoEntry
               /\ declined' = declined
          ELSE IF DestNotDirectory(destInfo)
          THEN /\ SetWorld(ss.w)
               /\ EndSource(Err("NonDirOverwrite", Dest, ""))
               /\ last' = NoEntry
               /\ declined' = declined
          ELSE LET w1 == Sys(ss.w, "lstat", src)
                   r == WalkFn(w1, cmd, src, Dest, src, [name |-> "", isDir |-> TRUE], k)
                   st == PopDone(<<Frame(r.w.fs, src)>>)
               IN /\ SetWorld(Sys(r.w, "readdir", src))
                  /\ last' = NoEntry
                  /\ declined' = declined
                  /\ IF st = <<>>
                     THEN EndSource(NoErr)
                     ELSE /\ stack' = st
                          /\ pc' = "walk"
                          /\ UNCHANGED <<errs, srcLog, idx>>
  /\ UNCHANGED <<cmd, listVars, args, destInfo, result, fs0>>

\* faulty variant: the walk goes on with the siblings after an error
AfterEntry_NeverReturns(err, d) ==
  IF err = NoErr /\ d.isDir THEN "descend" ELSE "next"

\* faulty variant: a skipped directory is entered all the same
AfterEntry_SkipIgnored(err, d) ==
  IF err = NoErr THEN (IF d.isDir THEN "descend" ELSE "next")
  ELSE IF err = SkipDir /\ d.isDir THEN "descend"
  ELSE "return"

\* what filepath.WalkDir does with the callback's error for the entry d: it
\* reads a directory and descends, goes on with the next sibling (also when
\* a directory returned SkipDir), or returns the error
AfterEntry(err, d) ==
  IF err = NoErr THEN (IF d.isDir THEN "descend" ELSE "next")
  ELSE IF err = SkipDir /\ d.isDir THEN "next"
  ELSE "return"

\* filepath.WalkDir visits the next entry: the callback runs on it, then the
\* walk descends, goes on with the siblings, or returns
WalkStep ==
  /\ pc = "walk"
  /\ \E k \in Reads(stdin) :
       LET src == Sources[idx]
           top == stack[Len(stack)]
           d == Head(top.ents)
           path == Join(top.dir, <<d.name>>)
           rest == [stack EXCEPT ![Len(stack)].ents = Tail(@)]
           r == WalkFn(TheWorld, cmd, src, Dest, path, d, k)
           target == Join(Dest, Rel(src, path))
       IN /\ last' = Entry("entry", path, target, d.isDir, TheWorld, r)
          /\ declined' = (IF Declined(last') THEN declined \cup {idx} ELSE declined)
          /\ IF AfterEntry(r.err, d) = "descend"
             THEN /\ SetWorld(Sys(r.w, "readdir", path))
                  /\ LET st == PopDone(Append(rest, Frame(r.w.fs, path)))
                     IN IF st = <<>> THEN EndSource(NoErr)
                        ELSE /\ stack' = st
                             /\ UNCHANGED <<pc, errs, srcLog, idx>>
             ELSE IF AfterEntry(r.err, d) = "next"
             THEN /\ SetWorld(r.w)
                  /\ LET st == PopDone(rest)
                     IN IF st = <<>> THEN EndSource(NoErr)
                        ELSE /\ stack' = st
                             /\ UNCHANGED <<pc, errs, srcLog, idx>>
             ELSE /\ SetWorld(r.w)
                  /\ EndSource(r.err)
  /\ UNCHANGED <<cmd, listVars, args, destInfo, result, fs0>>

\* copyFile after its loop: errors.Join(errs...)
JoinErrors ==
  /\ pc = "sources"
  /\ idx > Len(Sources)
  /\ result' = errs
  /\ pc' = "done"
  /\ last' = NoEntry
  /\ UNCHANGED <<cmd, listVars, args, fs, stdin, out, sys, destInfo, idx, errs, stack, fs0, srcLog,
                 declined>>

Next == Run \/ CopyFile \/ CopySource \/ WalkStep \/ JoinErrors

Spec == Init /\ [][Next]_vars

TypeOK ==
  /\ pc \in {"run", "copyFile", "sources", "walk", "done"}
  /\ \A q \in DOMAIN fs : q = <<>> \/ IsDirAt(fs, Parent(q))

\* ----------------------------------- a destination inside the source tree
\* copy mode with the directory A as the source and its empty subdirectory
\* A/s as the destination
InsideFS ==
  [q \in {<<>>, <<"f">>, <<"A">>, <<"A", "f">>, <<"A", "s">>, <<"A", "z">>} |->
     CASE q = <<"f">> -> FileNode("x", 420, 2)
       [] q = <<"A", "f">> -> FileNode("a", 420, 2)
       [] q = <<"A", "z">> -> FileNode("c", 420, 2)
       [] OTHER -> DirNode]

InitInside ==
  /\ pc = "run"
  /\ cmd \in [copy : {TRUE}, recursive : BOOLEAN, force : BOOLEAN,
              interactive : BOOLEAN, verbose : {FALSE}, dryRun : BOOLEAN]
  /\ args \in {<< <<"A">>, <<"A", "s">> >>, << <<"A">>, <<"f">>, <<"A", "s">> >>}
  /\ fs = InsideFS
  /\ stdin \in SeqsUpTo(InputLines, MaxInput)
  /\ ~cmd.interactive => stdin = <<>>
  /\ out = <<>>
  /\ sys = <<>>
  /\ destInfo = DirNode
  /\ idx = 1
  /\ errs = <<>>
  /\ stack = <<>>
  /\ result = <<>>
  /\ fs0 = fs
  /\ srcLog = <<>>
  /\ last = NoEntry
  /\ declined = {}
  /\ ListIdle

SpecInside == InitInside /\ [][Next]_vars

\* -------------------------------------- two sources with the same base name
\* copy mode with the files f and A/f as the sources and the directory B,
\* which holds no f, as the destination, or with the directory A in place
\* of A/f; the sources are readable and writable, read-only, or write-only
ReadOnlyMode == 292

InitSameName ==
  /\ pc = "run"
  /\ cmd \in [copy : {TRUE}, recursive : BOOLEAN, force : BOOLEAN,
              interactive : BOOLEAN, verbose : {FALSE}, dryRun : BOOLEAN]
  /\ args \in {<< <<"f">>, <<"A", "f">>, <<"B">> >>, << <<"A", "f">>, <<"f">>, <<"B">> >>,
               << <<"A">>, <<"f">>, <<"B">> >>}
  /\ \E sm \in SrcModes \cup {ReadOnlyMode} : fs = InitFS(sm, "absent", "absent")
  /\ stdin \in SeqsUpTo(InputLines, MaxInput)
  /\ ~cmd.interactive => stdin = <<>>
  /\ out = <<>>
  /\ sys = <<>>
  /\ destInfo = DirNode
  /\ idx = 1
  /\ errs = <<>>
  /\ stack = <<>>
  /\ result = <<>>
  /\ fs0 = fs
  /\ srcLog = <<>>
  /\ last = NoEntry
  /\ declined = {}
  /\ ListIdle

SpecSameName == InitSameName /\ [][Next]_vars

\* ------------------------------------------------------ one transfer alone
\* copySrcToDest on the file args[1] and the path args[2], with the FileInfo
\* of the file and every combination of verbose and dryRun
TransferSrcs == {<<"f">>, <<"A", "f">>, <<"g">>}
TransferDsts == {<<"B", "f">>, <<"B", "s">>, <<"B", "g">>, <<"z">>, <<"z", "f">>, <<"B">>}

InitTransfer ==
  /\ pc = "transfer"
  /\ cmd \in [copy : {TRUE}, recursive : {FALSE}, force : {FALSE},
              interactive : {FALSE}, verbose : BOOLEAN, dryRun : BOOLEAN]
  /\ args \in {<<s, d>> : s \in TransferSrcs, d \in TransferDsts}
  /\ \E sm \in SrcModes \cup {ReadOnlyMode}, bf \in {"absent", "file", "ro", "dir"},
        bs \in {"absent", "file", "dir"} : fs = InitFS(sm, bf, bs)
  /\ stdin = <<>>
  /\ out = <<>>
  /\ sys = <<>>
  /\ destInfo = DirNode
  /\ idx = 1
  /\ errs = <<>>
  /\ stack = <<>>
  /\ result = <<>>
  /\ fs0 = fs
  /\ srcLog = <<>>
  /\ last = NoEntry
  /\ declined = {}
  /\ ListIdle

Transfer ==
  /\ pc = "transfer"
  /\ LET r == copySrcToDest(TheWorld, args[1], args[2], Stat(fs, args[1]).info, cmd)
     IN /\ SetWorld(r.w)
        /\ result' = IF r.err = NoErr THEN <<>> ELSE <<r.err>>
        /\ last' = [op |-> "transfer", src |-> args[1], target |-> args[2],
                    before |-> fs, err |-> r.err]
  /\ pc' = "done"
  /\ UNCHANGED <<cmd, listVars, args, destInfo, idx, errs, stack, fs0, srcLog, declined>>

SpecTransfer == InitTransfer /\ [][Transfer]_vars

\* ------------------------------------------- the overwrite decision alone
\* shouldOverwrite called on its own: the target is B/f, which is absent, a
\* file or a directory; any flags; any lines waiting on console.In
DecideTarget == <<"B", "f">>

InitDecide ==
  /\ pc = "decide"
  /\ cmd \in [copy : {TRUE}, recursive : {FALSE}, force : BOOLEAN,
              interactive : BOOLEAN, verbose : {FALSE}, dryRun : {FALSE}]
  /\ args = <<DecideTarget>>
  /\ \E bf \in {"absent", "file", "ro", "dir"} : fs = InitFS(420, bf, "absent")
  /\ stdin \in SeqsUpTo(InputLines, MaxInput)
  /\ out = <<>>
  /\ sys = <<>>
  /\ destInfo = DirNode
  /\ idx = 1
  /\ errs = <<>>
  /\ stack = <<>>
  /\ result = <<>>
  /\ fs0 = fs
  /\ srcLog = <<>>
  /\ last = NoEntry
  /\ declined = {}
  /\ ListIdle

\* the record of one call of shouldOverwrite: what it was given, what it
\* returned, how often it wrote the prompt and how many lines it took
Decision(target, w, r) ==
  [op |-> "decide", target |-> target, should |-> r.should, err |-> r.err,
   prompts |-> Len(r.w.out) - Len(w.out), line |-> ScanText(w.in),
   taken |-> Len(w.in) - Len(r.w.in)]

\* one call shouldOverwrite(targetPath, targetInfo, cmd), targetInfo as the
\* callers obtain it from os.Stat
Decide ==
  /\ pc = "decide"
  /\ \E k \in Reads(stdin) :
       LET target == Stat(fs, args[1])
           r == shouldOverwrite(TheWorld, args[1], target, cmd, k)
       IN /\ SetWorld(r.w)
          /\ last' = Decision(target, TheWorld, r)
  /\ pc' = "done"
  /\ UNCHANGED <<cmd, listVars, args, destInfo, idx, errs, stack, result, fs0, srcLog, declined>>

NextDecide == Decide

SpecDecide == InitDecide /\ [][NextDecide]_vars

\* --------------------------------------------- the confirmation alone
\* prompt and askConfirmationFromReader called on the same waiting input,
\* any stream of at most MaxRaw characters
MaxRaw == 4
RawChars == {"y", "Y", "e", "E", "s", "S", "n", " ", "\n", "\r"}

InitConfirm ==
  /\ pc = "confirm"
  /\ cmd = [copy |-> TRUE, recursive |-> FALSE, force |-> FALSE,
            interactive |-> TRUE, verbose |-> FALSE, dryRun |-> FALSE]
  /\ args = <<DecideTarget>>
  /\ fs = InitFS(420, "file", "absent")
  /\ \E raw \in SeqsUpTo(RawChars, MaxRaw) : stdin = Lines(raw)
  /\ out = <<>>
  /\ sys = <<>>
  /\ destInfo = DirNode
  /\ idx = 1
  /\ errs = <<>>
  /\ stack = <<>>
  /\ result = <<>>
  /\ fs0 = fs
  /\ srcLog = <<>>
  /\ last = NoEntry
  /\ declined = {}
  /\ ListIdle

\* both confirmations read the input that waits
Confirm ==
  /\ pc = "confirm"
  /\ \E k \in Reads(stdin) :
       LET pr == prompt(TheWorld, args[1], k)
       IN /\ SetWorld(pr.w)
          /\ last' = [op |-> "confirm", in |-> stdin, prompt |-> pr.yes,
                      ask |-> askConfirmationFromReader(stdin)]
  /\ pc' = "done"
  /\ UNCHANGED <<cmd, listVars, args, destInfo, idx, errs, stack, result, fs0, srcLog, declined>>

NextConfirm == Confirm

SpecConfirm == InitConfirm /\ [][NextConfirm]_vars

\* -------------------------------------------------------------- list mode
\* run without -copy, then listFiles
MaxPaths == 3
ListArgs == {<<"f">>, <<"A">>, <<"B">>, <<"z">>, <<Dot>>}
NoReadMode == 192

\* the lines of console.Out in list mode
PathLine(path) == [kind |-> "path", src |-> path, dst |-> path]
HeaderLine(path) == [kind |-> "header", src |-> path, dst |-> path]
BlankLine == [kind |-> "blank", src |-> <<>>, dst |-> <<>>]

\* the tree of Init, B empty or holding f, readable or not
InitList ==
  /\ pc = "run"
  /\ cmd = [copy |-> FALSE, recursive |-> FALSE, force |-> FALSE,
            interactive |-> FALSE, verbose |-> FALSE, dryRun |-> FALSE]
  /\ args \in SeqsUpTo(ListArgs, MaxPaths)
  /\ \E bf \in {"absent", "file"}, bm \in {DirMode, NoReadMode} :
       fs = Put(InitFS(420, bf, "absent"), <<"B">>, [DirNode EXCEPT !.mode = bm])
  /\ stdin = <<>>
  /\ out = <<>>
  /\ sys = <<>>
  /\ destInfo = DirNode
  /\ idx = 1
  /\ errs = <<>>
  /\ stack = <<>>
  /\ result = <<>>
  /\ fs0 = fs
  /\ srcLog = <<>>
  /\ last = NoEntry
  /\ declined = {}
  /\ ListIdle

\* run, list mode: no path means the working directory
RunList ==
  /\ pc = "run"
  /\ ~cmd.copy
  /\ args' = IF Len(args) = 0 THEN << <<Dot>> >> ELSE args
  /\ pc' = "listFiles"
  /\ UNCHANGED <<cmd, fs, stdin, out, sys, destInfo, idx, errs, stack, result, fs0,
                 srcLog, last, declined, listVars>>

\* faulty variant: a path that cannot be inspected is taken as it comes
StatFailed_Never(st) == FALSE

\* the test of os.Stat's error in the first loop of listFiles
StatFailed(st) == st.errno # ""

\* the paths of directories up to the first one os.Stat fails on
RECURSIVE StatAll(_, _)
StatAll(w, paths) ==
  IF paths = <<>> THEN [w |-> w, infos |-> <<>>, err |-> NoErr]
  ELSE LET sc == StatCall(w, Head(paths))
       IN IF StatFailed(sc.st)
          THEN [w |-> sc.w, infos |-> <<>>,
                err |-> Err("CannotStat", Head(paths), sc.st.errno)]
          ELSE LET more == StatAll(sc.w, Tail(paths))
               IN [w |-> more.w, infos |-> <<sc.st.info>> \o more.infos,
                   err |-> more.err]

\* listFiles up to its second loop: every path is inspected first
ListValidate ==
  /\ pc = "listFiles"
  /\ LET r == StatAll(TheWorld, args)
     IN /\ sys' = r.w.sys
        /\ IF r.err # NoErr
           THEN /\ result' = <<r.err>>
                /\ pc' = "done"
                /\ srcInfos' = srcInfos
           ELSE /\ result' = result
                /\ pc' = "list"
                /\ srcInfos' = r.infos
  /\ UNCHANGED <<cmd, args, fs, stdin, out, destInfo, idx, errs, stack, fs0, srcLog,
                 last, declined, hasErrors, needsBlankLine, errlog>>

\* faulty variant: a blank line is also printed before the first item
BlankLineDue_First(i, needs) == needs

\* the test at the head of the loop, i counting from 1
BlankLineDue(i, needs) == i > 1 /\ needs

\* faulty variant: a directory that could not be read is forgotten
MarkReadError_Forgets(h) == h

\* hasErrors after a directory could not be read
MarkReadError(h) == TRUE

\* the lines printPath writes for the entries os.ReadDir returned
RECURSIVE NameLines(_)
NameLines(files) ==
  IF files = <<>> THEN <<>>
  ELSE <<PathLine(<<Head(files).name>>)>> \o NameLines(Tail(files))

\* one pass of the loop of listFiles, for directories[idx]
ListItem ==
  /\ pc = "list"
  /\ idx <= Len(args)
  /\ LET path == args[idx]
         info == srcInfos[idx]
         blank == IF BlankLineDue(idx, needsBlankLine) THEN <<BlankLine>> ELSE <<>>
     IN IF info.kind # "dir"
        THEN /\ out' = out \o blank \o <<PathLine(path)>>
             /\ needsBlankLine' = TRUE
             /\ UNCHANGED <<sys, hasErrors, errlog>>
        ELSE LET re == ReadDirErrno(fs, Clean(path))
             IN /\ sys' = Append(sys, <<"readdir", path>>)
                /\ IF re # ""
                   THEN /\ out' = out \o blank \o <<HeaderLine(path)>>
                        /\ errlog' = Append(errlog, Err("Error reading", path, re))
                        /\ hasErrors' = MarkReadError(hasErrors)
                        /\ needsBlankLine' = needsBlankLine
                   ELSE /\ out' = out \o blank \o <<HeaderLine(path)>>
                                       \o NameLines(ReadDir(fs, Clean(path)))
                        /\ needsBlankLine' = TRUE
                        /\ UNCHANGED <<hasErrors, errlog>>
  /\ idx' = idx + 1
  /\ UNCHANGED <<pc, cmd, args, fs, stdin, destInfo, errs, stack, result, fs0, srcLog,
                 last, declined, srcInfos>>

\* listFiles after its loop
ListReturn ==
  /\ pc = "list"
  /\ idx > Len(args)
  /\ result' = IF hasErrors THEN <<Err("SomeUnreadable", <<>>, "")>> ELSE <<>>
  /\ pc' = "done"
  /\ UNCHANGED <<cmd, args, fs, stdin, out, sys, destInfo, idx, errs, stack, fs0,
                 srcLog, last, declined, listVars>>

NextList == RunList \/ ListValidate \/ ListItem \/ ListReturn

SpecList == InitList /\ [][NextList]_vars

\* ------------------------------------------------------- the restore tool
\* copy.go: restore(archiveDir, destDir, list, force); args holds the two
\* directories and cmd the two flags
\* filepath.Ext on the names in use
Ext(path) ==
  IF path # <<>> /\ path[Len(path)] \in {"p.gz", "q.gz"} THEN ".gz" ELSE ""

\* gzip.NewReader on the byte streams in use: "Zf" and "Zg" are gzip streams
\* whose header names f and g, "Z" one without a name; the payload is "r",
\* the header time 3 (none in "Z"); any other stream has no gzip header
Gunzip(content) ==
  CASE content = "Zf" -> [ok |-> TRUE, name |-> <<"f">>, data |-> "r", modTime |-> 3]
    [] content = "Zg" -> [ok |-> TRUE, name |-> <<"g">>, data |-> "r", modTime |-> 3]
    [] content = "Z" -> [ok |-> TRUE, name |-> <<>>, data |-> "r", modTime |-> 0]
    [] OTHER -> [ok |-> FALSE, name |-> <<>>, data |-> "", modTime |-> 0]

\* the lines restore prints
RestoreLine(kind, path, dest) == [kind |-> kind, src |-> path, dst |-> dest]

\* askConfirmation: askConfirmationFromReader on the standard input
askConfirmation(w, dest, k) ==
  [w |-> [Say(w, RestoreLine("overwrite?", dest, dest)) EXCEPT !.in = Consume(w.in, k)],
   yes |-> askConfirmationFromReader(w.in)]

\* faulty variant: list mode restores like the normal mode
ListOnly_Never(c) == FALSE

\* restore's test of its list flag
ListOnly(c) == c.list

\* the writing part of the callback: the directories on the way, the file,
\* its bytes and its time
RestoreFile(w, zr, dest) ==
  LET w1 == Sys(w, "mkdir", Parent(dest))
      me == MkdirAllErrno(w.fs, Parent(dest))
  IN IF me # "" THEN [w |-> w1, err |-> Err("mkdir", Parent(dest), me)]
     ELSE
       LET f1 == MkdirAll(w.fs, Parent(dest))
           w2 == Sys([w1 EXCEPT !.fs = f1], "create", dest)
           ce == CreateErrno(f1, dest)
       IN IF ce # "" THEN [w |-> w2, err |-> Err("create", dest, ce)]
          ELSE
            LET f2 == CreateFile(f1, dest)
                f3 == Put(f2, dest, FileNode(zr.data, f2[dest].mode, Now))
                f4 == IF zr.modTime # 0 THEN Chtimes(f3, dest, zr.modTime) ELSE f3
            IN [w |-> Say(Sys([w2 EXCEPT !.fs = f4], "copy", dest),
                          RestoreLine("Restored", dest, dest)),
                err |-> NoErr]

\* the callback restore hands to filepath.Walk, for the file or directory
\* info found at path
RestoreFn(w, c, archiveDir, destDir, path, info, k) ==
  IF info.kind = "dir" THEN [w |-> w, err |-> NoErr]
  ELSE IF Ext(path) # ".gz" THEN [w |-> w, err |-> NoErr]
  ELSE
    LET relDir == Rel(archiveDir, Parent(Clean(path)))
        w1 == Sys(w, "open", path)
        oe == OpenErrno(w.fs, path)
    IN IF oe # "" THEN [w |-> w1, err |-> Err("open", path, oe)]
       ELSE
         LET zr == Gunzip(w.fs[Clean(path)].content)
             dest == Join(Join(destDir, relDir), zr.name)
         IN IF ~zr.ok THEN [w |-> w1, err |-> Err("gzip", path, "")]
            ELSE IF ListOnly(c)
            THEN [w |-> Say(w1, RestoreLine("Would restore", path, dest)), err |-> NoErr]
            ELSE
              LET sd == IF c.force THEN [w |-> w1, st |-> Stat(w1.fs, dest)]
                        ELSE StatCall(w1, dest)
                  ask == askConfirmation(sd.w, dest, k)
              IN IF ~c.force /\ sd.st.errno = "" /\ ~ask.yes
                 THEN [w |-> Say(ask.w, RestoreLine("Skipped", dest, dest)), err |-> NoErr]
                 ELSE IF ~c.force /\ sd.st.errno = ""
                 THEN RestoreFile(ask.w, zr, dest)
                 ELSE RestoreFile(sd.w, zr, dest)

\* the archive A holds p.gz, the plain file f and the directory s with q.gz;
\* pz and qz are the byte streams of the two .gz files; B may hold f
RestoreFS(pz, qz, bf) ==
  LET dom == {<<>>, <<"f">>, <<"A">>, <<"A", "f">>, <<"A", "p.gz">>, <<"A", "s">>,
              <<"A", "s", "q.gz">>, <<"B">>}
               \cup (IF bf = "absent" THEN {} ELSE {<<"B", "f">>})
  IN [q \in dom |->
        CASE q = <<"f">> -> FileNode("x", 420, 2)
          [] q = <<"A", "f">> -> FileNode("a", 420, 2)
          [] q = <<"A", "p.gz">> -> FileNode(pz, 420, 2)
          [] q = <<"A", "s", "q.gz">> -> FileNode(qz, 420, 2)
          [] q = <<"B", "f">> ->
               (CASE bf = "file" -> FileNode("old", 384, 1)
                  [] bf = "ro" -> FileNode("old", 292, 1)
                  [] OTHER -> DirNode)
          [] OTHER -> DirNode]

InitRestore ==
  /\ pc = "restore"
  /\ cmd \in [list : BOOLEAN, force : BOOLEAN]
  /\ args \in {<<a, d>> : a \in {<<"A">>, <<"f">>, <<"z">>},
                          d \in {<<"B">>, <<Dot>>, <<"A">>, <<"f">>, <<"z">>}}
  /\ \E pz \in {"Zf", "Z"}, qz \in {"Zf", "Zg", "junk"},
        bf \in {"absent", "file", "ro", "dir"} : fs = RestoreFS(pz, qz, bf)
  /\ stdin \in SeqsUpTo(InputLines, MaxInput)
  /\ (cmd.list \/ cmd.force) => stdin = <<>>
  /\ out = <<>>
  /\ sys = <<>>
  /\ destInfo = DirNode
  /\ idx = 1
  /\ errs = <<>>
  /\ stack = <<>>
  /\ result = <<>>
  /\ fs0 = fs
  /\ srcLog = <<>>
  /\ last = NoEntry
  /\ declined = {}
  /\ ListIdle

\* the walk goes on with what is left in the frames, or returns nil
WalkOn(st) ==
  /\ stack' = st
  /\ pc' = IF st = <<>> THEN "done" ELSE "restoreWalk"
  /\ result' = result

\* restore up to the first entry of the walk: both directories are
\* inspected, then filepath.Walk reads the archive directory
RestoreStart ==
  /\ pc = "restore"
  /\ LET sa == StatCall(TheWorld, args[1])
         sb == StatCall(sa.w, args[2])
     IN IF sa.st.errno # "" \/ sa.st.info.kind # "dir"
        THEN /\ SetWorld(sa.w)
             /\ pc' = "done"
             /\ stack' = stack
             /\ result' = <<Err(IF sa.st.errno # "" THEN "stat" ELSE "NotDirectory",
                                args[1], sa.st.errno)>>
        ELSE IF sb.st.errno # "" \/ sb.st.info.kind # "dir"
        THEN /\ SetWorld(sb.w)
             /\ pc' = "done"
             /\ stack' = stack
             /\ result' = <<Err(IF sb.st.errno # "" THEN "stat" ELSE "NotDirectory",
                                args[2], sb.st.errno)>>
        ELSE /\ SetWorld(Sys(Sys(sb.w, "lstat", args[1]), "readdir", args[1]))
             /\ WalkOn(PopDone(<<Frame(fs, args[1])>>))
  /\ UNCHANGED <<cmd, listVars, args, destInfo, idx, errs, fs0, srcLog, last, declined>>

\* filepath.Walk visits the next entry: a directory is read and entered, a
\* file is handed to the callback
RestoreStep ==
  /\ pc = "restoreWalk"
  /\ \E k \in Reads(stdin) :
       LET top == stack[Len(stack)]
           d == Head(top.ents)
           path == Join(top.dir, <<d.name>>)
           rest == [stack EXCEPT ![Len(stack)].ents = Tail(@)]
           w1 == Sys(TheWorld, "lstat", path)
           info == Stat(fs, path).info
           r == RestoreFn(w1, cmd, args[1], args[2], path, info, k)
       IN /\ last' = [op |-> "restore", src |-> path, before |-> fs, err |-> r.err]
          /\ IF info.kind = "dir"
             THEN /\ SetWorld(Sys(w1, "readdir", path))
                  /\ WalkOn(PopDone(Append(rest, Frame(fs, path))))
             ELSE IF r.err = NoErr
             THEN /\ SetWorld(r.w)
                  /\ WalkOn(PopDone(rest))
             ELSE /\ SetWorld(r.w)
                  /\ stack' = <<>>
                  /\ pc' = "done"
                  /\ result' = <<r.err>>
  /\ UNCHANGED <<cmd, listVars, args, destInfo, idx, errs, fs0, srcLog, declined>>

NextRestore == RestoreStart \/ RestoreStep

SpecRestore == InitRestore /\ [][NextRestore]_vars

\* ----------------------------------------------------------------- claims
\* vocabulary of the claims
IsEntry == last.op # "none"
FileStep == IsEntry /\ ~last.isDir
SrcPath == Clean(last.src)
TargetPath == Clean(last.target)
SamePlace == SrcPath = TargetPath
TargetWasFile == IsFileAt(last.before, TargetPath)
AnsweredNo == last.asked /\ last.line \in {<<"n">>, <<>>}
ErrorRecorded == Len(errs) = last.nerrs + 1 /\ errs[Len(errs)] = last.err
NoErrorRecorded == Len(errs) = last.nerrs
EarlyKinds == {"NoSource", "SelfArg", "StatDest", "NotADirectory"}
LoopRan == pc = "done" /\ (result = <<>> \/ result[1].kind \notin EarlyKinds)
Failures(log) == SelectSeq(log, LAMBDA e : e.err # NoErr)
WasDirSource(j) == IsDirAt(fs0, Clean(Sources[j]))

\* C1: copyFile hands every source to copySource, in argument order, whatever
\* the earlier sources returned; a missing source gives a "cannot stat
\* source" error and a directory without -r an "omitting directory" error;
\* the result is nil exactly when no source failed, and otherwise holds the
\* errors of the failed sources in source order.
C1_AllSourcesProcessed ==
  /\ \A j \in 1..Len(srcLog) :
       /\ srcLog[j].src = j
       /\ Stat(fs0, Sources[j]).errno # "" => srcLog[j].err.kind = "StatSource"
       /\ (WasDirSource(j) /\ ~cmd.recursive) => srcLog[j].err.kind = "OmitDir"
  /\ LoopRan =>
       /\ Len(srcLog) = Len(Sources)
       /\ result = [j \in 1..Len(Failures(srcLog)) |-> Failures(srcLog)[j].err]
       /\ (result = <<>>) <=> (\A j \in 1..Len(srcLog) : srcLog[j].err = NoErr)

C1_Witness ==
  /\ pc = "done"
  /\ Len(srcLog) = 2
  /\ srcLog[1].err # NoErr
  /\ srcLog[2].err = NoErr
  /\ Len(result) = 1
  /\ fs # fs0

\* C2 as stated: with neither -f nor -i, a file copied onto a path that holds
\* a regular file fails with the "already exists" error naming the target and
\* the target keeps its content (single file and walk entry alike).
C2_Case == FileStep /\ ~cmd.force /\ ~cmd.interactive /\ TargetWasFile

C2_AlwaysConflict ==
  C2_Case =>
    /\ last.err = Err("Conflict", last.target, "")
    /\ fs[TargetPath].content = last.before[TargetPath].content

\* C2 amended: the error is "already exists" naming the target unless the
\* target of a single-file copy is the source file itself, where it is the
\* self-copy error; in both cases the error is recorded and nothing changes.
C2_ConflictUnlessSelf ==
  C2_Case =>
    /\ IF last.op = "file" /\ SamePlace
       THEN last.err = Err("SelfCopy", last.src, "")
       ELSE last.err = Err("Conflict", last.target, "")
    /\ ErrorRecorded
    /\ fs = last.before

C2_Witness ==
  /\ C2_Case
  /\ last.op = "entry"
  /\ last.err.kind = "Conflict"
  /\ ~cmd.dryRun

\* C3 as stated: with -f, a file copied onto an existing file gives no error
\* and the target then holds the source's content.
C3_Case == FileStep /\ cmd.force /\ TargetWasFile

C4_Case == IsEntry /\ cmd.interactive /\ ~cmd.force /\ AnsweredNo

C4_DeclineIsSkip ==
  C4_Case =>
    /\ fs = last.before
    /\ last.err = (IF last.isDir THEN SkipDir ELSE NoErr)
    /\ NoErrorRecorded

C4_Witness ==
  /\ C4_Case
  /\ last.op = "file"
  /\ last.line = <<"n">>
  /\ ~cmd.dryRun
  /\ fs[TargetPath].content = "old"

\* C5: a single-file copy whose final destination is the source file itself
\* fails with the self-copy error under every combination of flags, the
\* error is recorded for the source, and nothing is created or written.
C5_Case == last.op = "file" /\ SamePlace

C5_SelfCopyFails ==
  C5_Case =>
    /\ last.err = Err("SelfCopy", last.src, "")
    /\ ErrorRecorded
    /\ ~last.wrote
    /\ fs = last.before

C5_Witness ==
  /\ C5_Case
  /\ cmd.force
  /\ ~cmd.dryRun
  /\ last.target = Dest
  /\ last.err.kind = "SelfCopy"

\* C6: without -r a directory source fails with "omitting directory" naming
\* it; no walk is started (no lstat, readdir or mkdir), the only paths that
\* appear are final destinations of file sources, and the loop still reaches
\* every source.
C6_OmitDirectory ==
  ~cmd.recursive =>
    /\ \A j \in 1..Len(srcLog) :
         WasDirSource(j) => srcLog[j].err = Err("OmitDir", Sources[j], "")
    /\ pc # "walk"
    /\ \A j \in 1..Len(sys) : sys[j][1] \notin {"lstat", "readdir", "mkdir"}
    /\ \A q \in (DOMAIN fs) \ (DOMAIN fs0) :
         \E j \in 1..Len(srcLog) :
           /\ ~WasDirSource(j)
           /\ q = Clean(FinalDest(Sources[j], Dest, destInfo))
    /\ LoopRan => Len(srcLog) = Len(Sources)

C6_Witness ==
  /\ pc = "done"
  /\ ~cmd.recursive
  /\ Len(srcLog) = 2
  /\ srcLog[1].err.kind = "OmitDir"
  /\ srcLog[2].err = NoErr
  /\ fs # fs0

\* C7 as stated: when the copy of a directory source with -r has returned
\* nil, every path below the source exists below the destination with the
\* same kind, files with the same content, and nothing the filesystem held
\* is gone.
SubtreeOf(f, root) ==
  {q \in DOMAIN f : Len(q) > Len(root) /\ SubSeq(q, 1, Len(root)) = root}

Mirrored(f, src, dest) ==
  \A q \in SubtreeOf(f, Clean(src)) :
    LET t == Join(dest, Rel(src, q))
    IN /\ Exists(f, t)
       /\ f[t].kind = f[q].kind
       /\ f[q].kind = "file" => f[t].content = f[q].content

\* the copy of a source has just returned: copySource was called for
\* sources[j] and copyFile's loop has its result
JustReturned(j) == pc = "sources" /\ Len(srcLog) = j /\ idx = j + 1

C7_Conclusion(j) ==
  /\ Mirrored(fs, Sources[j], Dest)
  /\ \A q \in DOMAIN fs0 : Exists(fs, q)

C8_MetadataPreserved ==
  (FileStep /\ last.wrote /\ last.err = NoErr) =>
    /\ fs[TargetPath].mode = last.before[SrcPath].mode
    /\ fs[TargetPath].mtime = last.before[SrcPath].mtime

C8_Witness ==
  /\ FileStep
  /\ last.wrote
  /\ last.err = NoErr
  /\ TargetWasFile
  /\ last.before[TargetPath].mode # last.before[SrcPath].mode
  /\ last.before[TargetPath].mtime # last.before[SrcPath].mtime

\* C9: when copyFile gets more than one source and a destination that exists
\* and is not a directory (run has let the arguments pass: the first and the
\* last differ), it returns "target is not a directory" after the one Stat
\* of the destination: the loop is never entered, no other os call is made,
\* nothing is printed and the filesystem is as it was.
C9_Case == Len(args) > 2 /\ args[1] # Dest /\ IsFileAt(fs0, Clean(Dest))

C9_NotADirectoryFirst ==
  C9_Case =>
    /\ pc \in {"run", "copyFile", "done"}
    /\ fs = fs0
    /\ srcLog = <<>>
    /\ out = <<>>
    /\ \A j \in 1..Len(sys) : sys[j] = <<"stat", Dest>>
    /\ pc = "done" => result = <<Err("NotADirectory", Dest, "")>>

C9_Witness ==
  /\ C9_Case
  /\ pc = "done"
  /\ Len(Sources) = 2
  /\ result = <<Err("NotADirectory", Dest, "")>>
  /\ sys = <<<<"stat", Dest>>>>

\* C10: with -dry-run the filesystem stays what it was, no call that opens,
\* creates, writes, re-modes or makes a directory is issued, and every entry
\* that is to be transferred or created is reported on the output instead.
C10_DryRunFrame ==
  cmd.dryRun =>
    /\ fs = fs0
    /\ \A j \in 1..Len(sys) : sys[j][1] \in {"stat", "lstat", "readdir"}
    /\ (IsEntry /\ last.err = NoErr /\ ~AnsweredNo) =>
         /\ Len(out) > last.nout
         /\ out[Len(out)] =
              (IF last.isDir
               THEN [kind |-> "would create directory", src |-> last.target,
                     dst |-> last.target]
               ELSE [kind |-> "would copy", src |-> last.src, dst |-> last.target])

C10_Witness ==
  /\ cmd.dryRun
  /\ cmd.force
  /\ pc = "done"
  /\ \E j \in 1..Len(out) : out[j].kind = "would copy"
  /\ \E j \in 1..Len(out) : out[j].kind = "would create directory"

\* -------------------------------------------------------------------- C11
\* the three outcomes of the overwrite decision, as (proceed?, error) pairs
Proceed == <<TRUE, NoErr>>
SkipOutcome == <<FALSE, NoErr>>
Fail(targetPath) == <<FALSE, ConflictErr(targetPath)>>

\* the decision table: absent or directory gives Proceed; an existing file
\* gives Proceed with force, else with interactive Proceed on yes and Skip on
\* no, else Fail
Reference(targetPath, target, force, interactive, yes) ==
  CASE target.errno # "" -> Proceed
    [] target.errno = "" /\ target.info.kind = "dir" -> Proceed
    [] target.errno = "" /\ target.info.kind = "file" /\ force -> Proceed
    [] target.errno = "" /\ target.info.kind = "file" /\ ~force /\ interactive ->
         (IF yes THEN Proceed ELSE SkipOutcome)
    [] OTHER -> Fail(targetPath)

Decided == last.op = "decide"
AnswerYes == IsYes(ToLower(TrimSpace(last.line)))

\* C11: whatever the target state, the flags and the answer, the overwrite
\* decision returns the outcome of the decision table: one of Proceed, Skip
\* and Fail, with an error in the Fail outcome only, and that error is the
\* 'already exists' conflict on the target
C11_DecisionTable ==
  Decided =>
    /\ <<last.should, last.err>> =
          Reference(args[1], last.target, cmd.force, cmd.interactive, AnswerYes)
    /\ <<last.should, last.err>> \in {Proceed, SkipOutcome, Fail(args[1])}
    /\ (last.err # NoErr) <=> (<<last.should, last.err>> = Fail(args[1]))

\* the decision was taken on a directory target with neither flag set
C11_Witness ==
  /\ Decided
  /\ last.target.errno = "" /\ last.target.info.kind = "dir"
  /\ ~cmd.force /\ ~cmd.interactive
  /\ <<last.should, last.err>> = Proceed

\* -------------------------------------------------------------------- C12
TargetIsFile == last.target.errno = "" /\ last.target.info.kind = "file"
PromptDue == TargetIsFile /\ ~cmd.force /\ cmd.interactive

\* C12: the overwrite decision writes its prompt exactly when the target is
\* an existing regular file, force is unset and interactive is set, and then
\* once; in every other case, force together with interactive included, it
\* writes no prompt and takes nothing from console.In
C12_PromptExactlyWhenDue ==
  Decided =>
    /\ last.prompts = (IF PromptDue THEN 1 ELSE 0)
    /\ \A j \in 1..Len(out) : out[j].kind = "prompt" /\ out[j].dst = args[1]
    /\ ~PromptDue => (last.taken = 0 /\ last.line = ScanText(stdin))
    /\ (cmd.force /\ cmd.interactive) => (out = <<>> /\ last.taken = 0)

\* force and interactive are both set, the target is an existing file and an
\* answer is waiting: the decision is to proceed and the answer still waits
C12_Witness ==
  /\ Decided
  /\ cmd.force /\ cmd.interactive /\ TargetIsFile
  /\ stdin # <<>> /\ last.taken = 0 /\ out = <<>>
  /\ last.should

\* -------------------------------------------------------------------- C13
\* the word y or yes in any case
YesWord(word) ==
  \/ Len(word) = 1 /\ word[1] \in {"y", "Y"}
  \/ Len(word) = 3 /\ word[1] \in {"y", "Y"} /\ word[2] \in {"e", "E"}
                   /\ word[3] \in {"s", "S"}

\* a line that is y or yes between any white space
YesLine(line) ==
  \E i, j \in 1..Len(line) :
    /\ i <= j
    /\ \A m \in 1..(i - 1) : IsSpace(line[m])
    /\ \A m \in (j + 1)..Len(line) : IsSpace(line[m])
    /\ YesWord(SubSeq(line, i, j))

Confirmed == last.op = "confirm"

\* C13: the confirmation is true exactly when there is a first line of input
\* and it is y or yes in any case between any white space; an empty line, any
\* other line and the end of input give false; prompt and
\* askConfirmationFromReader give the same answer on every input
C13_YesExactlyOnYesLine ==
  Confirmed =>
    /\ last.prompt <=> (last.in # <<>> /\ YesLine(Head(last.in)))
    /\ last.ask <=> last.prompt

\* an upper-case yes after a blank was taken as yes by both
C13_Witness ==
  /\ Confirmed
  /\ last.in = << <<" ", "Y", "E", "S">> >>
  /\ last.prompt /\ last.ask

\* the end of input and an empty first line were both taken as no
C13_WitnessNo ==
  /\ Confirmed
  /\ last.in \in {<<>>, << <<>>, <<"y">> >>}
  /\ ~last.prompt /\ ~last.ask

\* -------------------------------------------------------------------- C14
\* the latest step was the walk's callback on an entry, and it failed
EntryFailed == last.op = "entry" /\ last.err \notin {NoErr, SkipDir}

\* the entries of the source tree under src that the walk has not visited
\* when it stands at path: those that sort after it, outside its subtree
RECURSIVE PathBefore(_, _)
PathBefore(a, b) ==
  IF a = <<>> THEN b # <<>>
  ELSE IF b = <<>> THEN FALSE
  ELSE IF Head(a) = Head(b) THEN PathBefore(Tail(a), Tail(b))
  ELSE NameRank[Head(a)] < NameRank[Head(b)]

LaterEntries(f, src, path) ==
  {q \in SubtreeOf(f, Clean(src)) : PathBefore(Clean(path), q)}

\* C14: when the callback fails on an entry of a recursive walk, the walk of
\* that source returns at once with that error: no entry is pending, the
\* targets of the entries not yet visited are as they were, nothing was
\* asked, the error is the one copyFile records for the source, and the loop
\* stands at the next source; when the loop has run, every source was handed
\* to copySource
C14_FailureEndsWalk ==
  /\ EntryFailed =>
       /\ pc = "sources" /\ stack = <<>>
       /\ JustReturned(Len(srcLog))
       /\ srcLog[Len(srcLog)].err = last.err
       /\ ErrorRecorded
       /\ \A q \in LaterEntries(last.before, Sources[idx - 1], last.src) :
            LET t == Join(Dest, Rel(Sources[idx - 1], q))
            IN /\ Exists(fs, t) <=> Exists(last.before, t)
               /\ Exists(fs, t) => fs[t] = last.before[t]
               /\ \A j \in (last.nout + 1)..Len(out) : out[j].dst # t
  /\ (pc = "walk") => (~IsEntry \/ last.err \in {NoErr, SkipDir})
  /\ LoopRan => Len(srcLog) = Len(Sources)

\* the walk of the first of two sources failed on its first entry A/f: the
\* later entries A/s and A/z have no target, and the second source is next
C14_Witness ==
  /\ EntryFailed
  /\ Len(Sources) = 2 /\ idx = 2 /\ pc = "sources"
  /\ Clean(last.src) = <<"A", "f">>
  /\ LaterEntries(last.before, Sources[1], last.src)
       = {<<"A", "s">>, <<"A", "s", "f">>, <<"A", "z">>}
  /\ ~Exists(fs, <<"B", "s">>) /\ ~Exists(fs, <<"B", "z">>)

\* -------------------------------------------------------------------- C15
\* the entries of the source tree that have the parent of path and sort
\* after it: the siblings the walk has still to visit
LaterSiblings(f, src, path) ==
  {q \in SubtreeOf(f, Clean(src)) :
     /\ Parent(q) = Parent(Clean(path))
     /\ NameRank[q[Len(q)]] > NameRank[Clean(path)[Len(Clean(path))]]}

\* the errors of the sources, in the order of the sources
SourceErrors == [j \in 1..Len(Failures(srcLog)) |-> Failures(srcLog)[j].err]

\* per-source errors are recovered: the loop has gone on to the next source
\* after each, and once it has run every source error is in the result
SourcesRecovered ==
  /\ \A j \in 1..Len(srcLog) : srcLog[j].src = j
  /\ (pc \in {"sources", "walk"}) => errs = SourceErrors
  /\ LoopRan => (Len(srcLog) = Len(Sources) /\ result = SourceErrors)

\* C15 as stated: an entry's failure does not keep the walk from its later
\* siblings (the walk goes on while siblings are left), and source errors
\* are recovered
C15_NothingPreventsSiblings ==
  /\ SourcesRecovered
  /\ (EntryFailed /\ LaterSiblings(last.before, Sources[idx - 1], last.src) # {})
       => pc = "walk"

\* C15, amended: source errors are recovered, and the error of a failed
\* entry is recovered as the error of its source: the walk of that source
\* returns it, copyFile records it and goes on with the next source, and it
\* is part of the result once the loop has run
C15_SourceErrorsRecovered ==
  /\ SourcesRecovered
  /\ EntryFailed =>
       /\ JustReturned(Len(srcLog))
       /\ srcLog[Len(srcLog)].err = last.err
       /\ errs # <<>> /\ errs[Len(errs)] = last.err

\* a walk failed on A/f with siblings left, as the first of two sources; the
\* loop has gone on and also recorded the failure of the second
C15_Witness ==
  /\ pc = "done" /\ Len(Sources) = 2 /\ Len(result) = 2
  /\ WasDirSource(1)
  /\ result[1].kind = "Conflict" /\ result[1].path = <<"B", "f">>
  /\ result[2].kind = "StatSource"

\* -------------------------------------------------------------------- C16
\* the latest step was the walk's callback on an entry whose prompt was
\* answered no
EntrySkipped == last.op = "entry" /\ Declined(last)

\* the entries of the source tree that a walk standing at the skipped entry
\* has still to visit: all later ones, less the subtree of a directory
LeftAfterSkip ==
  LET src == Sources[IF pc = "walk" THEN idx ELSE idx - 1]
      later == LaterEntries(last.before, src, last.src)
  IN IF last.isDir THEN later \ SubtreeOf(last.before, Clean(last.src)) ELSE later

\* the entry the walk visits next
NextPending ==
  LET top == stack[Len(stack)]
  IN Join(top.dir, <<Head(top.ents).name>>)

\* C16: an entry whose prompt is answered no is skipped without any error
\* and without any change: a skipped file is the only entry left out, the
\* walk goes on with the entry that follows it; a skipped directory is left
\* out with its whole subtree, the walk goes on with the first entry after
\* that subtree; when nothing follows, the walk returns without error
C16_SkipPrunes ==
  EntrySkipped =>
    /\ last.err = (IF last.isDir THEN SkipDir ELSE NoErr)
    /\ NoErrorRecorded
    /\ fs = last.before
    /\ IF LeftAfterSkip = {}
       THEN /\ JustReturned(Len(srcLog))
            /\ srcLog[Len(srcLog)].err = NoErr
       ELSE /\ pc = "walk"
            /\ NextPending \in LeftAfterSkip
            /\ \A q \in LeftAfterSkip : q = NextPending \/ PathBefore(NextPending, q)
            /\ \A j \in 1..Len(stack) : \A n \in 1..Len(stack[j].ents) :
                 Join(stack[j].dir, <<stack[j].ents[n].name>>) \in LeftAfterSkip

\* the directory A/s met the file B/s and the answer was no: the walk stands
\* before A/z, and A/s/f waits in no frame
C16_Witness ==
  /\ EntrySkipped /\ last.isDir
  /\ Clean(last.src) = <<"A", "s">>
  /\ pc = "walk" /\ NextPending = <<"A", "z">>
  /\ errs = <<>>

\* the file A/f met the file B/f and the answer was no: the walk stands
\* before A/s
C16_WitnessFile ==
  /\ EntrySkipped /\ ~last.isDir
  /\ Clean(last.src) = <<"A", "f">>
  /\ pc = "walk" /\ NextPending = <<"A", "s">>
  /\ errs = <<>>

\* -------------------------------------------------------------------- C17
\* a source was rejected because the destination is not a directory
Rejected(j) == srcLog[j].err.kind = "NonDirOverwrite"

C18_Case == pc \notin {"run", "copyFile"}
            /\ Len(args) >= 2 /\ args[1] # Dest /\ Stat(fs0, Dest).errno # ""

Listing == pc = "list" \/ (pc = "done" /\ ~cmd.copy /\ srcInfos # <<>>)

\* the names of the immediate children of directory c
ChildNames(f, c) ==
  {q[Len(q)] : q \in {r \in DOMAIN f : Len(r) = Len(c) + 1 /\ Parent(r) = c}}

\* what one item of the listing looks like: the path itself, or the header
\* and a line per child of a directory that can be read
ItemLines(f, path) ==
  IF ~IsDirAt(f, Clean(path)) THEN <<PathLine(path)>>
  ELSE IF ~Readable(f[Clean(path)]) THEN <<HeaderLine(path)>>
  ELSE LET names == SortNames(ChildNames(f, Clean(path)))
       IN <<HeaderLine(path)>> \o [k \in 1..Len(names) |-> PathLine(<<names[k]>>)]

\* the items of paths in order, one blank line between two of them
RECURSIVE Listed(_, _)
Listed(f, paths) ==
  IF paths = <<>> THEN <<>>
  ELSE IF Len(paths) = 1 THEN ItemLines(f, paths[1])
  ELSE Listed(f, SubSeq(paths, 1, Len(paths) - 1)) \o <<BlankLine>>
         \o ItemLines(f, paths[Len(paths)])

Blanks(lines) == Len(SelectSeq(lines, LAMBDA l : l = BlankLine))

\* C19: when every listed path can be inspected, what listFiles has printed
\* after n passes of its loop is the first n items in argument order, each
\* the path itself or the header and one line per immediate child (the
\* header alone for an empty directory), with exactly one blank line between
\* two items: n - 1 blank lines, none first and none last
C19_ListingLayout ==
  Listing =>
    /\ out = Listed(fs0, SubSeq(args, 1, idx - 1))
    /\ Blanks(out) = (IF idx > 2 THEN idx - 2 ELSE 0)
    /\ out # <<>> => (out[1] # BlankLine /\ out[Len(out)] # BlankLine)
    /\ pc = "done" => idx = Len(args) + 1

\* three items were listed: a directory with children, a file and an empty
\* directory, with two blank lines
C19_Witness ==
  /\ pc = "done" /\ ~cmd.copy
  /\ args = << <<"A">>, <<"f">>, <<"B">> >>
  /\ ChildNames(fs0, <<"B">>) = {} /\ Readable(fs0[<<"B">>])
  /\ out = <<HeaderLine(<<"A">>), PathLine(<<"f">>), PathLine(<<"s">>),
             PathLine(<<"z">>), BlankLine, PathLine(<<"f">>), BlankLine,
             HeaderLine(<<"B">>)>>
  /\ result = <<>>

\* -------------------------------------------------------------------- C20
\* the listed paths that are directories the process may not read
Unreadable(j) == IsDirAt(fs0, Clean(args[j])) /\ ~Readable(fs0[Clean(args[j])])

\* C20: when a listed directory cannot be read, its header is printed all
\* the same, errorLogger gets an 'Error reading' line for it with the cause,
\* the loop goes on with the remaining paths, and listFiles returns 'some
\* directories could not be read'; without such a directory it returns nil
C20_UnreadableDirectory ==
  Listing =>
    /\ \A j \in 1..(idx - 1) :
         Unreadable(j) =>
           /\ \E n \in 1..Len(out) : out[n] = HeaderLine(args[j])
           /\ \E n \in 1..Len(errlog) :
                errlog[n] = Err("Error reading", args[j], "EACCES")
    /\ Len(errlog) = Cardinality({j \in 1..(idx - 1) : Unreadable(j)})
    /\ hasErrors <=> (\E j \in 1..(idx - 1) : Unreadable(j))
    /\ pc = "done" =>
         /\ idx = Len(args) + 1
         /\ out = Listed(fs0, args)
         /\ result = (IF \E j \in 1..Len(args) : Unreadable(j)
                      THEN <<Err("SomeUnreadable", <<>>, "")>> ELSE <<>>)

\* the unreadable directory B was listed first and the file f after it: the
\* header of B, a blank line and f were printed, one line was logged and the
\* error returned
C20_Witness ==
  /\ pc = "done" /\ ~cmd.copy
  /\ args = << <<"B">>, <<"f">> >> /\ Unreadable(1)
  /\ out = <<HeaderLine(<<"B">>), BlankLine, PathLine(<<"f">>)>>
  /\ errlog = <<Err("Error reading", <<"B">>, "EACCES")>>
  /\ result = <<Err("SomeUnreadable", <<>>, "")>>

\* -------------------------------------------------------------------- C21
\* lines occurs in printed as one run of consecutive lines
Occurs(lines, printed) ==
  \E i \in 0..(Len(printed) - Len(lines)) :
    SubSeq(printed, i + 1, i + Len(lines)) = lines

ListEnded == pc = "done" /\ ~cmd.copy
CanStat(path) == Stat(fs0, path).errno = ""

\* C21 as stated: once listFiles has returned, the item of every path that
\* exists has been printed, whatever the other paths are
C21_EachListedAlone ==
  ListEnded =>
    \A j \in 1..Len(args) : CanStat(args[j]) => Occurs(ItemLines(fs0, args[j]), out)

\* C21, amended: when every path can be inspected, the item of each path is
\* printed whether or not the other directories can be read; when some path
\* cannot be inspected, listFiles returns 'cannot stat' for the first such
\* path after inspecting the paths before it, and nothing is printed, read
\* or logged for any path
C21_ListedAloneWhenAllExist ==
  ListEnded =>
    IF \A j \in 1..Len(args) : CanStat(args[j])
    THEN \A j \in 1..Len(args) : Occurs(ItemLines(fs0, args[j]), out)
    ELSE LET bad == CHOOSE j \in 1..Len(args) :
                      ~CanStat(args[j]) /\ \A n \in 1..(j - 1) : CanStat(args[n])
         IN /\ result = <<Err("CannotStat", args[bad], Stat(fs0, args[bad]).errno)>>
            /\ out = <<>> /\ errlog = <<>>
            /\ sys = [n \in 1..bad |-> <<"stat", args[n]>>]

\* the file f was to be listed before the missing z: nothing was printed
C21_Witness ==
  /\ ListEnded
  /\ args = << <<"f">>, <<"z">> >>
  /\ out = <<>>
  /\ result = <<Err("CannotStat", <<"z">>, "ENOENT")>>

\* -------------------------------------------------------------------- C22
\* C22: the step of run in copy mode touches nothing; without a path it
\* returns 'at least one source path'; a single path gets "." as the
\* destination; and exactly when the first and the last path are the same
\* string it returns 'cannot copy a path to itself', otherwise copyFile is
\* called with the paths; an invocation rejected by run has made no os call
\* and left the filesystem and the output as they were
C22_StepOfRun ==
  (pc = "run" /\ cmd.copy) =>
    /\ sys' = sys /\ fs' = fs /\ out' = out /\ stdin' = stdin
    /\ IF Len(args) = 0
       THEN pc' = "done" /\ result' = <<Err("NoSource", <<>>, "")>>
       ELSE LET paths == IF Len(args) = 1 THEN <<args[1], <<Dot>> >> ELSE args
            IN /\ args' = paths
               /\ IF paths[1] = paths[Len(paths)]
                  THEN pc' = "done" /\ result' = <<Err("SelfArg", paths[1], "")>>
                  ELSE pc' = "copyFile" /\ result' = <<>>

C22_RejectedUntouched ==
  (pc = "done" /\ cmd.copy /\ result # <<>>
     /\ result[1].kind \in {"NoSource", "SelfArg"}) =>
    (sys = <<>> /\ fs = fs0 /\ out = <<>>)

C22_WitnessDefault ==
  /\ pc = "copyFile" /\ args = << <<"f">>, <<Dot>> >> /\ sys = <<>>

\* -------------------------------------------------------------------- C23
\* the os calls that create or change something
WritingCalls == {"mkdir", "create", "copy", "chmod", "chtimes"}

\* C23: with list set, whatever force is and whatever the archive holds,
\* restore leaves the whole filesystem, the destination directory included,
\* as it was: it makes no call that creates or changes anything, asks
\* nothing, and prints only 'Would restore' lines
C23_ListChangesNothing ==
  (pc \in {"restore", "restoreWalk", "done"} /\ "list" \in DOMAIN cmd /\ cmd.list) =>
    /\ fs = fs0
    /\ \A n \in 1..Len(sys) : sys[n][1] \notin WritingCalls
    /\ \A n \in 1..Len(out) : out[n].kind = "Would restore"

\* with list and force set, p.gz was reported for the existing file B/f,
\* which is as it was
C23_Witness ==
  /\ pc = "done" /\ "list" \in DOMAIN cmd /\ cmd.list /\ cmd.force
  /\ args = << <<"A">>, <<"B">> >>
  /\ \E n \in 1..Len(out) :
       out[n] = RestoreLine("Would restore", <<"A", "p.gz">>, <<"B", "f">>)
  /\ IsFileAt(fs0, <<"B", "f">>) /\ fs = fs0
  /\ result = <<>>

\* -------------------------------------------------------------------- C24
\* the os calls of the latest step
StepCalls == SubSeq(sys, last.nsys + 1, Len(sys))

\* the latest step handed a file entry of a walk to copySrcToDest, which
\* went to work
TransferInvoked ==
  /\ last.op = "entry" /\ ~last.isDir /\ ~cmd.dryRun
  /\ \E n \in 1..Len(StepCalls) : StepCalls[n] = <<"open", last.src>>

\* C24: in a recursive copy that is no dry run, when copySrcToDest is called
\* for a file entry the parent directory of its target exists; and a
\* directory entry whose callback returned nil has a directory at its target
\* (made or found), while every other directory entry was pruned or ended
\* the walk
C24_ParentExists ==
  /\ TransferInvoked => IsDirAt(last.before, Parent(TargetPath))
  /\ (last.op = "entry" /\ last.isDir /\ ~cmd.dryRun) =>
       \/ last.err = NoErr /\ IsDirAt(fs, TargetPath)
       \/ last.err = SkipDir /\ pc \in {"walk", "sources"} /\ NoErrorRecorded
       \/ EntryFailed /\ pc = "sources" /\ stack = <<>>

\* A/s/f was transferred to B/s/f after the walk had made B/s
C24_Witness ==
  /\ TransferInvoked
  /\ Clean(last.src) = <<"A", "s", "f">> /\ TargetPath = <<"B", "s", "f">>
  /\ ~Exists(fs0, <<"B", "s">>) /\ IsDirAt(last.before, <<"B", "s">>)
  /\ last.err = NoErr /\ IsFileAt(fs, <<"B", "s", "f">>)

\* -------------------------------------------------------------------- C25
\* C25: no step creates or truncates, as its target, the file it copies
\* from: after a step whose source and target are the same file, no create
\* call was made on it and the file holds what it held
C25_NoSelfOverwrite ==
  (IsEntry /\ ~last.isDir /\ SamePlace /\ IsFileAt(last.before, SrcPath)) =>
    /\ \A n \in 1..Len(StepCalls) :
         ~(StepCalls[n][1] = "create" /\ Clean(StepCalls[n][2]) = SrcPath)
    /\ fs[SrcPath].content = last.before[SrcPath].content

\* -------------------------------------------------------------------- C26
\* the source whose tree the latest entry belongs to
WalkedSource == IF pc = "walk" THEN idx ELSE idx - 1

\* C26: the entries the walk of the first source visits are entries its tree
\* had when the walk started, that is, in the initial filesystem: nothing
\* the copy has made is visited as a source entry
C26_VisitsOnlyOriginal ==
  (last.op = "entry" /\ WalkedSource = 1) =>
    Clean(last.src) \in SubtreeOf(fs0, Clean(Sources[1]))

\* -------------------------------------------------------------------- C27
\* C27: a step that prompted took exactly the one line that answered it
\* from console.In (nothing at the end of input), so that the lines after it
\* wait for the later prompts
C27_OneLinePerPrompt ==
  (IsEntry /\ last.asked) =>
    Len(stdin) = (IF last.nin > 0 THEN last.nin - 1 ELSE 0)

\* -------------------------------------------------------------------- C28
\* two file sources with one final destination, which did not exist, have
\* both been handed to copySource
SameNameDone ==
  /\ pc = "done" /\ Len(srcLog) = 2
  /\ IsFileAt(fs0, Clean(Sources[1])) /\ IsFileAt(fs0, Clean(Sources[2]))
  /\ Clean(Sources[1]) # Clean(Sources[2])
  /\ FinalDest(Sources[1], Dest, destInfo) = FinalDest(Sources[2], Dest, destInfo)
  /\ ~Exists(fs0, Clean(FinalDest(Sources[1], Dest, destInfo)))

TheDest == Clean(FinalDest(Sources[1], Dest, destInfo))
SourceContent(j) == fs0[Clean(Sources[j])].content
SourceMode(j) == fs0[Clean(Sources[j])].mode

\* C28 as stated: without force and interactive the first source is copied,
\* the second fails with the conflict and the destination holds the first
\* source's content; with force both succeed and the destination holds the
\* last source's content
C28_SameNameSources ==
  SameNameDone =>
    /\ (~cmd.force /\ ~cmd.interactive) =>
         /\ srcLog[1].err = NoErr
         /\ srcLog[2].err = ConflictErr(TheDest)
         /\ IsFileAt(fs, TheDest) /\ fs[TheDest].content = SourceContent(1)
    /\ cmd.force =>
         /\ srcLog[1].err = NoErr /\ srcLog[2].err = NoErr
         /\ IsFileAt(fs, TheDest) /\ fs[TheDest].content = SourceContent(2)

\* C28, amended: the same in a run that is no dry run and whose sources can
\* be read, with force as long as the first source, whose permission bits
\* the destination got, can be written by its owner; when it cannot, the
\* second source fails at os.Create and the destination keeps the first
\* source's content; in a dry run both sources are reported and nothing is
\* copied; a source that cannot be read fails at os.Open
C28_SameNameSourcesReadable ==
  SameNameDone =>
    /\ cmd.dryRun =>
         (srcLog[1].err = NoErr /\ srcLog[2].err = NoErr /\ fs = fs0)
    /\ (~cmd.dryRun /\ \A j \in 1..2 : ~Readable(fs0[Clean(Sources[j])])) =>
         (\A j \in 1..2 : srcLog[j].err.kind = "open") /\ fs = fs0
    /\ (~cmd.dryRun /\ \A j \in 1..2 : Readable(fs0[Clean(Sources[j])])) =>
         /\ (~cmd.force /\ ~cmd.interactive) =>
              /\ srcLog[1].err = NoErr
              /\ srcLog[2].err = ConflictErr(TheDest)
              /\ IsFileAt(fs, TheDest) /\ fs[TheDest].content = SourceContent(1)
         /\ (cmd.force /\ SourceMode(1) \div OwnerWrite % 2 = 1) =>
              /\ srcLog[1].err = NoErr /\ srcLog[2].err = NoErr
              /\ IsFileAt(fs, TheDest) /\ fs[TheDest].content = SourceContent(2)
         /\ (cmd.force /\ SourceMode(1) \div OwnerWrite % 2 = 0) =>
              /\ srcLog[1].err = NoErr
              /\ srcLog[2].err = Err("create", TheDest, "EACCES")
              /\ IsFileAt(fs, TheDest) /\ fs[TheDest].content = SourceContent(1)

\* f and A/f were copied to B with force: B/f holds the content of A/f
C28_Witness ==
  /\ SameNameDone /\ cmd.force /\ ~cmd.dryRun
  /\ args = << <<"f">>, <<"A", "f">>, <<"B">> >>
  /\ result = <<>>
  /\ fs[<<"B", "f">>].content = "a"

\* without a flag the second fails and B/f holds the content of f
C28_WitnessConflict ==
  /\ SameNameDone /\ ~cmd.force /\ ~cmd.interactive /\ ~cmd.dryRun
  /\ args = << <<"f">>, <<"A", "f">>, <<"B">> >>
  /\ result = <<ConflictErr(<<"B", "f">>)>>
  /\ fs[<<"B", "f">>].content = "x"

\* -------------------------------------------------------------------- C29
\* the latest step handled a source entry whose target exists and is of the
\* other kind: a file over a directory, or a directory over a file
KindMismatch ==
  /\ last.op \in {"file", "entry"}
  /\ IF last.isDir THEN IsFileAt(last.before, TargetPath)
                    ELSE IsDirAt(last.before, TargetPath)

\* the target and everything below it are as they were before the step
TargetUntouched ==
  \A q \in (DOMAIN fs) \cup (DOMAIN last.before) :
    (Len(q) >= Len(TargetPath) /\ SubSeq(q, 1, Len(TargetPath)) = TargetPath) =>
      (q \in DOMAIN fs /\ q \in DOMAIN last.before /\ fs[q] = last.before[q])

\* C29 as stated: on a kind mismatch the target is left unchanged and the
\* entry ends with an error
C29_MismatchReported ==
  KindMismatch => (TargetUntouched /\ last.err \notin {NoErr, SkipDir})

\* C29, amended: on a kind mismatch the target is always left unchanged, a
\* directory is never made in place of a file; the entry ends with an error
\* except when its prompt was declined, which skips it, and except in a dry
\* run whose decision is Proceed, which only reports what it would do
C29_MismatchLeavesTarget ==
  KindMismatch =>
    /\ TargetUntouched
    /\ last.isDir => IsFileAt(fs, TargetPath)
    /\ (last.err \in {NoErr, SkipDir}) <=>
         \/ Declined(last)
         \/ cmd.dryRun /\ (~last.isDir \/ cmd.force \/ last.asked)
    /\ Declined(last) => (last.isDir /\ last.err = SkipDir)
    /\ (~last.isDir /\ ~cmd.dryRun) => last.err.kind \in {"open", "create"}
    /\ (last.isDir /\ ~cmd.force /\ ~last.asked) => last.err = ConflictErr(last.target)
    /\ (last.isDir /\ ~cmd.dryRun /\ (cmd.force \/ (last.asked /\ ~Declined(last)))) =>
         last.err.kind = "mkdir"

\* with force set the directory A/s met the file B/s: MkdirAll failed and
\* B/s is the file it was
C29_Witness ==
  /\ KindMismatch /\ last.isDir /\ cmd.force /\ ~cmd.dryRun
  /\ last.src = <<"A", "s">> /\ TargetPath = <<"B", "s">>
  /\ last.err.kind = "mkdir"
  /\ fs[<<"B", "s">>] = FileNode("olds", 384, 1)

\* the file f met the directory B/f: os.Create failed and B/f is a directory
C29_WitnessFile ==
  /\ KindMismatch /\ ~last.isDir /\ ~cmd.dryRun
  /\ last.src = <<"f">> /\ TargetPath = <<"B", "f">>
  /\ last.err = Err("create", <<"B", "f">>, "EISDIR")
  /\ IsDirAt(fs, <<"B", "f">>)

\* -------------------------------------------------------------------- C30
Transferred == pc = "done" /\ last.op = "transfer"

\* the places of the calls of one kind in the record of os calls
CallsOf(op) == {n \in 1..Len(sys) : sys[n][1] = op}

\* every call of kind a comes before every call of kind b, and b is not
\* called when a was not
Before(a, b) ==
  /\ \A n \in CallsOf(b) : \E k \in CallsOf(a) : k < n
  /\ \A n \in CallsOf(b), k \in CallsOf(a) : k < n

CopiedLine == [kind |-> "copied", src |-> args[1], dst |-> args[2]]

\* C30: outside a dry run copySrcToDest opens the source first; when that
\* fails the destination is neither created nor truncated, nothing else is
\* called and the error is returned, with one attempt; the destination is
\* created only after the source was opened, permission bits and times are
\* set only after the bytes were streamed, no call is made twice, and the
\* verbose line is printed exactly when verbose is set and every step
\* succeeded
C30_TransferOrder ==
  (Transferred /\ ~cmd.dryRun) =>
    /\ sys # <<>> /\ sys[1] = <<"open", args[1]>>
    /\ OpenErrno(fs0, args[1]) # "" =>
         /\ sys = << <<"open", args[1]>> >>
         /\ fs = fs0
         /\ result = <<Err("open", args[1], OpenErrno(fs0, args[1]))>>
    /\ \A op \in {"open", "create", "copy", "chmod", "chtimes"} :
         Cardinality(CallsOf(op)) <= 1
    /\ fs # fs0 => OpenErrno(fs0, args[1]) = ""
    /\ Before("open", "create") /\ Before("create", "copy")
    /\ Before("copy", "chmod") /\ Before("chmod", "chtimes")
    /\ CallsOf("chmod") # {} =>
         (IsFileAt(fs, Clean(args[2]))
            /\ fs[Clean(args[2])].content = fs0[Clean(args[1])].content)
    /\ (\E n \in 1..Len(out) : out[n] = CopiedLine) <=>
         (cmd.verbose /\ result = <<>>)
    /\ result = <<>> =>
         (/\ [n \in 1..Len(sys) |-> sys[n][1]] =
                <<"open", "create", "copy", "chmod", "chtimes">>
          /\ out = IF cmd.verbose THEN <<CopiedLine>> ELSE <<>>)
    /\ result # <<>> => out = <<>>

\* with verbose set f was copied over the file B/f: all five calls were
\* made and the line was printed
C30_Witness ==
  /\ Transferred /\ ~cmd.dryRun /\ cmd.verbose
  /\ args = << <<"f">>, <<"B", "f">> >>
  /\ fs0[<<"B", "f">>] = FileNode("old", 384, 1)
  /\ result = <<>>
  /\ fs[<<"B", "f">>].content = "x"
  /\ out = <<CopiedLine>>
  /\ Len(sys) = 5

\* the source could not be opened: the file B/f is as it was
C30_WitnessOpenFails ==
  /\ Transferred /\ ~cmd.dryRun /\ cmd.verbose
  /\ args = << <<"f">>, <<"B", "f">> >>
  /\ fs0[<<"B", "f">>] = FileNode("old", 384, 1)
  /\ result = <<Err("open", <<"f">>, "EACCES")>>
  /\ fs = fs0 /\ out = <<>>

\* the destination could not be created: nothing was printed
C30_WitnessCreateFails ==
  /\ Transferred /\ ~cmd.dryRun /\ cmd.verbose
  /\ result # <<>> /\ result[1].kind = "create"
  /\ [n \in 1..Len(sys) |-> sys[n][1]] = <<"open", "create">>
  /\ out = <<>>

====
